---- MODULE Spec2Model ----
(***************************************************************************)
(* Update-coordination core of the subway e-ink tracker:                   *)
(*   runner.py   Runner (redraw scheduler, change detector, DisplayState)  *)
(*   display.py  Display (one-slot mailbox and writer loop)                *)
(* Python's None is the record None; an Optional[List] is None or          *)
(* Some(list).  Times are whole seconds of one wall clock.                 *)
(***************************************************************************)
EXTENDS Integers, Sequences, FiniteSets, TLC

None == [none |-> TRUE]
Some(v) == [some |-> v]

(***************************************************************************)
(* Bounds of the model.                                                    *)
(***************************************************************************)
MaxLen == 3
MaxEvents == 4
MaxTicks == 2
MaxConcEvents == 3
MaxConcTicks == 1
MaxFrames == 3
MaxPolls == 4
MaxProdTicks == 2
MaxWrites == 3
MaxSubs == 3
\* seconds of the long run
MaxHourSecs == 7200
\* calls of start_updates and stop_updates
MaxCalls == 4
\* seconds of heartbeat after start-up
MaxBootSecs == 6
\* events of the producers before they go quiet, and the seconds of each hour in
\* which they arrive
MaxLiveEvents == 3
MaxLiveSecs == 1

(***************************************************************************)
(* subway_service.TrainArrival and the transit snapshots.                  *)
(***************************************************************************)
TrainIds == {"A", "B", "C"}
Minutes == {4, 5}

\* the fields TrainArrival.__eq__ does not read, varied together
Extras ==
  {[route_id |-> "F", arrival_time |-> "09:05 AM"],
   [route_id |-> "G", arrival_time |-> "09:06 AM"]}

TrainArrival ==
  {[minutes_until_arrival |-> m, arrival_time |-> e.arrival_time,
    train_id |-> id, route_id |-> e.route_id] :
     m \in Minutes, id \in TrainIds, e \in Extras}

\* key=lambda x: x.minutes_until_arrival (get_upcoming_trains returns sorted lists)
IsSorted(trains) ==
  \A i \in 1..Len(trains) : \A j \in 1..Len(trains) :
    i < j => trains[i].minutes_until_arrival <= trains[j].minutes_until_arrival

\* every trip of the feed has its own trip_id
DistinctIds(trains) ==
  \A i \in 1..Len(trains) : \A j \in 1..Len(trains) :
    i # j => trains[i].train_id # trains[j].train_id

SeqsUpTo(S, n) == UNION {[1..k -> S] : k \in 0..n}

TrainLists ==
  {l \in SeqsUpTo(TrainArrival, MaxLen) : IsSorted(l) /\ DistinctIds(l)}

\* "if x" of an Optional[TrainArrival]: an instance is truthy, None is not
Truthy(x) == x # None

\* isinstance(other, TrainArrival): an object with the four fields of the
\* dataclass
IsTrainArrival(x) ==
  DOMAIN x = {"minutes_until_arrival", "arrival_time", "train_id", "route_id"}

\* the equality @dataclass would generate: all four fields
TrainEqAllFields(a, b) ==
  IF ~IsTrainArrival(b) THEN FALSE ELSE a = b

\* TrainArrival.__eq__
TrainEq(a, b) ==
  IF ~IsTrainArrival(b) THEN FALSE
  ELSE a.minutes_until_arrival = b.minutes_until_arrival /\ a.train_id = b.train_id

\* x == y: the left operand's __eq__, or the right operand's when the left is
\* not a TrainArrival and returns NotImplemented for one
PyEq(x, y) ==
  IF IsTrainArrival(x) THEN TrainEq(x, y)
  ELSE IF IsTrainArrival(y) THEN TrainEq(y, x)
  ELSE x = y

OptNeIsNot(a, b) == FALSE

\* prev != curr for Optional[TrainArrival] operands (Python negates __eq__;
\* None != x defers to x's reflected comparison)
OptNe(a, b) ==
  IF a = None /\ b = None THEN FALSE
  ELSE IF a = None THEN ~TrainEq(b, a)
  ELSE ~TrainEq(a, b)

\* Runner._get_top_two_trains
GetTopTwoTrains(trains) ==
  << IF Len(trains) > 0 THEN trains[1] ELSE None,
     IF Len(trains) > 1 THEN trains[2] ELSE None >>

PairChangedWholeRecord(prev, curr) == prev # curr

\* the body of the for loop of _has_significant_change, for one (prev, curr)
PairChanged(prev, curr) ==
  IF Truthy(prev) /\ Truthy(curr)
  THEN prev.train_id # curr.train_id
       \/ prev.minutes_until_arrival # curr.minutes_until_arrival
  ELSE OptNe(prev, curr)

HasSignificantChangeNoEmptyCheck(previous, current) ==
  IF ~Truthy(previous[1]) /\ Truthy(current[1]) THEN TRUE
  ELSE \E i \in 1..2 : PairChanged(previous[i], current[i])

HasSignificantChangePresentOnly(previous, current) ==
  IF ~Truthy(current[1]) THEN TRUE
  ELSE \E i \in 1..2 :
         /\ Truthy(previous[i]) /\ Truthy(current[i])
         /\ \/ previous[i].train_id # current[i].train_id
            \/ previous[i].minutes_until_arrival # current[i].minutes_until_arrival

\* Runner._has_significant_change, of self._previous_top_trains and current_trains
HasSignificantChange(previous, current) ==
  IF ~Truthy(previous[1]) /\ Truthy(current[1]) THEN TRUE
  ELSE IF ~Truthy(current[1]) THEN TRUE
  ELSE \E i \in 1..2 : PairChanged(previous[i], current[i])

(***************************************************************************)
(* Program constants.                                                      *)
(***************************************************************************)
min_interval == 1
ClearAge == 3500
HeartbeatSleep == 1
WriterSleep == 1

(***************************************************************************)
(* Shared state.                                                           *)
(*   DisplayState fields, Runner._previous_top_trains, Display.next_frame; *)
(*   clock is the wall clock (time.time(), datetime.now()).                *)
(* Each thread (main: heartbeat, weather: WeatherService callback,         *)
(* subway: SubwayService callback, and the writer) has a position pc and   *)
(* its locals.  One step is one statement that reads or writes shared      *)
(* state.  wfirstfail is how many frames had been stored when a hardware  *)
(* write first raised (None while none has).                               *)
(***************************************************************************)
VARIABLES
  weather_data, train_data, last_display_update, last_weather_change,
  last_display_clear, previous_top_trains, next_frame,
  clock, ticks, events, serial,
  pc, loc, wake,
  wpc, wframe, wwake, wfirstfail,
  nsub, hw, taken, superseded, coalesced, issued, gated, absorbed, doneBoth,
  dPrev, dCurr, dpc, dResult,
  s_pc, s_should_run, s_current_trains, s_new_trains, s_failed, s_wake,
  w_pc, w_should_run, w_current_data, w_weather_data, w_fails, w_wake,
  polls, r_pc, s_late, w_late,
  previous_image, e_pc, e_arg, e_op, e_good, e_calls,
  n_pc, n_subs, n_new, n_cache, n_i, n_calls,
  q_a, q_b, q_pc, q_res,
  k_last_clear, k_since,
  u_thread, u_should_run, u_loops, u_join, u_log,
  b_i, b_backend, b_subs, b_started,
  l_shown, l_stopped

svars ==
  <<weather_data, train_data, last_display_update, last_weather_change,
    last_display_clear, previous_top_trains, next_frame,
    clock, ticks, events, serial, pc, loc, wake, wpc, wframe, wwake, wfirstfail,
    nsub, hw, taken, superseded, coalesced, issued, gated, absorbed, doneBoth>>
dvars == <<dPrev, dCurr, dpc, dResult>>
\* the producers: SubwayService (s_) and WeatherService (w_) threads, their
\* fields _should_run, _current_trains, _current_data, and the locals new_trains
\* and weather_data of _update_loop; s_failed: the last get_upcoming_trains
\* caught an exception; w_fails: how many get_weather calls raised; r_pc: where
\* Runner.run is; s_late, w_late: what subscribe itself passed to a callback
\* that subscribed after start-up (None: no such subscriber yet)
pvars ==
  <<s_pc, s_should_run, s_current_trains, s_new_trains, s_failed, s_wake,
    w_pc, w_should_run, w_current_data, w_weather_data, w_fails, w_wake, polls,
    r_pc, s_late, w_late>>
\* the panel driver EInkDisplay: its field previous_image, where update is
\* (e_pc), the arguments of the call with the diff box chosen for it and the
\* cache it was diffed against (e_arg), the last write handed to the panel
\* (e_op), the bitmap of the last write that completed (e_good), and the number
\* of calls
hvars == <<previous_image, e_pc, e_arg, e_op, e_good, e_calls>>
\* one notification round of a producer: where _update_loop and
\* _notify_subscribers are (n_pc), the registered callbacks, each returning
\* ("ok") or raising ("raises") when called (n_subs), the snapshot just fetched
\* (n_new), the producer's cache (n_cache), the loop's position in the list
\* (n_i) and the calls made so far (n_calls)
nvars == <<n_pc, n_subs, n_new, n_cache, n_i, n_calls>>
\* the comparison a == b of two values: the operands, whether it has been
\* evaluated, and the results of a == b, b == a and a == a
qvars == <<q_a, q_b, q_pc, q_res>>
\* the long run: the time of the last redraw issued with clear=true (-1: none)
\* and the time since which both snapshots have been set
kvars == <<k_last_clear, k_since>>
\* start_updates / stop_updates called in sequence: per producer _update_thread
\* (0: None, else the index of the thread), _should_run and the position of
\* every thread created so far; the producer whose join the caller waits in;
\* the calls made
uvars == <<u_thread, u_should_run, u_loops, u_join, u_log>>
\* Runner.run: the position in its sequence of steps, Display.display (the
\* backend), and the producers whose subscription, whose start is done
bvars == <<b_i, b_backend, b_subs, b_started>>
\* the bitmap last written to the hardware; the producers deliver no more events
lvars == <<l_shown, l_stopped>>
xvars == <<nvars, qvars, kvars, uvars, bvars, lvars>>
vars == <<svars, dvars, pvars, hvars, xvars>>

Threads == {"main", "weather", "subway"}

WeatherSnaps == {[temp |-> 70], [temp |-> 75]}

A5 == [minutes_until_arrival |-> 5, arrival_time |-> "09:05 AM", train_id |-> "A", route_id |-> "F"]
A4 == [minutes_until_arrival |-> 4, arrival_time |-> "09:05 AM", train_id |-> "A", route_id |-> "F"]
B12 == [minutes_until_arrival |-> 12, arrival_time |-> "09:05 AM", train_id |-> "B", route_id |-> "G"]
C12 == [minutes_until_arrival |-> 12, arrival_time |-> "09:05 AM", train_id |-> "C", route_id |-> "F"]

\* the transit snapshots the subway producer delivers in the scheduler model
SchedLists == { <<>>, <<A5, B12>>, <<A5, B12, C12>>, <<A4, B12>> }

StartTimes == {3600}
Steps == {1, 3540, 3600}

\* datetime.now().minute
Minute(t) == (t \div 60) % 60

\* a thread's locals: now, force, clear, trains and img are the code's; both0
\* (both snapshots were set when the evaluation began) and seen (the value of
\* last_display_update the evaluation last read, -1 before any read) record
\* what the evaluation observed
Loc0 ==
  [now |-> 0, force |-> FALSE, clear |-> FALSE, trains |-> <<>>, img |-> None,
   both0 |-> FALSE, seen |-> -1]

\* layout.getImage: the bitmap is a function of the two snapshots
GetImage(weather, trains) == [weather |-> weather, trains |-> trains]

GateClosedAnd(weather, trains) == weather = None /\ trains = None

\* "not self.state.weather_data or self.state.train_data is None"
GateClosed(weather, trains) == weather = None \/ trains = None

IsFirstUpdateNever(ldu) == FALSE

\* "self.state.last_display_update == 0"
IsFirstUpdate(ldu) == ldu = 0

\* "now - self.state.last_display_clear >= 3500"
ClearDue(now, ldc) == now - ldc >= ClearAge

IntervalElapsedAlways(now, ldu) == now - ldu >= 0

\* "time_since_update >= self.min_interval"
IntervalElapsed(now, ldu) == now - ldu >= min_interval

SubmitKeepPending(slot, frame) == IF slot = None THEN frame ELSE slot

\* Display.update line 194: the slot is overwritten unconditionally
Submit(slot, frame) == frame

\* Display._process_queue line 183
ClearSlot(slot, written) == None

Range(s) == {s[i] : i \in 1..Len(s)}

SchedInitWith(s) ==
  /\ serial = s
  /\ weather_data = None
  /\ train_data = None
  /\ last_display_update = 0
  /\ last_weather_change = 0
  /\ last_display_clear = 0
  /\ previous_top_trains = <<None, None>>
  /\ next_frame = None
  /\ clock \in StartTimes
  /\ ticks = 0
  /\ events = 0
  /\ pc = [t \in Threads |-> "idle"]
  /\ loc = [t \in Threads |-> Loc0]
  /\ wake = 0
  /\ wpc = "q180"
  /\ wframe = None
  /\ wwake = 0
  /\ wfirstfail = None
  /\ nsub = 0
  /\ hw = <<>>
  /\ taken = {}
  /\ superseded = {}
  /\ coalesced = {}
  /\ issued = 0
  /\ gated = FALSE
  /\ absorbed = FALSE
  /\ doneBoth = FALSE

DetIdle ==
  /\ dPrev = <<>>
  /\ dCurr = <<>>
  /\ dpc = "idle"
  /\ dResult = FALSE

SchedIdle == SchedInitWith(TRUE)

\* the services before start_updates: SubwayService.__init__,
\* WeatherService.__init__
ProdInitWith(p, run) ==
  /\ s_pc = p.s
  /\ s_should_run = (run /\ p.s # "off")
  /\ s_current_trains = <<>>
  /\ s_new_trains = <<>>
  /\ s_failed = FALSE
  /\ s_wake = 0
  /\ w_pc = p.w
  /\ w_should_run = (run /\ p.w # "off")
  /\ w_current_data = None
  /\ w_weather_data = None
  /\ w_fails = 0
  /\ w_wake = 0
  /\ polls = 0
  /\ r_pc = p.r
  /\ s_late = None
  /\ w_late = None

ProdIdle == ProdInitWith([s |-> "off", w |-> "off", r |-> "off"], FALSE)

\* no notification round under way
NotifyIdle ==
  /\ n_pc = "off"
  /\ n_subs = <<>>
  /\ n_new = None
  /\ n_cache = None
  /\ n_i = 0
  /\ n_calls = <<>>

\* no comparison under way
EqIdle ==
  /\ q_a = None
  /\ q_b = None
  /\ q_pc = "off"
  /\ q_res = None

\* no redraw has been issued
HourIdle ==
  /\ k_last_clear = -1
  /\ k_since = None
\* SubwayService.__init__ lines 32-33, WeatherService.__init__: no thread
StartIdle ==
  /\ u_thread = [p \in {"subway", "weather"} |-> 0]
  /\ u_should_run = [p \in {"subway", "weather"} |-> FALSE]
  /\ u_loops = [p \in {"subway", "weather"} |-> <<>>]
  /\ u_join = "none"
  /\ u_log = <<>>
\* Runner.run has not been called; Display.__init__ line 159
BootIdle ==
  /\ b_i = 0
  /\ b_backend = None
  /\ b_subs = {}
  /\ b_started = {}
\* nothing has been written
LiveIdle ==
  /\ l_shown = None
  /\ l_stopped = FALSE
\* every group but g is idle, is left unchanged
XIdleBut(g) ==
  /\ g = "notify" \/ NotifyIdle
  /\ g = "eq" \/ EqIdle
  /\ g = "hour" \/ HourIdle
  /\ g = "start" \/ StartIdle
  /\ g = "boot" \/ BootIdle
  /\ g = "live" \/ LiveIdle
XUnchBut(g) ==
  /\ g = "notify" \/ UNCHANGED nvars
  /\ g = "eq" \/ UNCHANGED qvars
  /\ g = "hour" \/ UNCHANGED kvars
  /\ g = "start" \/ UNCHANGED uvars
  /\ g = "boot" \/ UNCHANGED bvars
  /\ g = "live" \/ UNCHANGED lvars
XIdle == XIdleBut("none")

\* EInkDisplay.__init__ lines 56-63
HwIdle ==
  /\ previous_image = None
  /\ e_pc = "idle"
  /\ e_arg = None
  /\ e_op = None
  /\ e_good = None
  /\ e_calls = 0

(***************************************************************************)
(* The scheduler and the render sink.                                      *)
(***************************************************************************)
SharedUnch ==
  UNCHANGED <<weather_data, train_data, last_display_update, last_weather_change,
              last_display_clear, previous_top_trains, next_frame>>
WriterUnch == UNCHANGED <<wpc, wframe, wwake, hw, taken, wfirstfail>>
FrameUnch == UNCHANGED <<nsub, superseded, coalesced, issued>>
GhostUnch == FrameUnch /\ UNCHANGED <<gated, absorbed, doneBoth>>
TimeUnch == UNCHANGED <<clock, ticks>>
DetUnch == UNCHANGED <<dvars, serial, pvars, hvars, xvars>>

\* serial: the handlers run one at a time, each to completion (callers that take
\* turns); otherwise the three threads interleave statement by statement
EventBound == IF serial THEN MaxEvents ELSE MaxConcEvents
TickBound == IF serial THEN MaxTicks ELSE MaxConcTicks
Free == serial => \A u \in Threads : pc[u] = "idle"

Goto(t, p) == pc' = [pc EXCEPT ![t] = p]
SetLoc(t, l) == loc' = [loc EXCEPT ![t] = l]

\* the handler returns to its caller; the main thread goes to time.sleep(1),
\* Runner.run line 187.  doneBoth: an evaluation that began with both snapshots
\* set has returned
Return(t) ==
  /\ Goto(t, "idle")
  /\ SetLoc(t, Loc0)
  /\ wake' = IF t = "main" THEN clock + HeartbeatSleep ELSE wake
  /\ doneBoth' = (doneBoth \/ loc[t].both0)

\* the wall clock advances by whole seconds: at any point of the interleaved
\* threads; with the handlers taking turns, between two handlers or while
\* getImage renders (a handler's other statements run within the second)
Tick ==
  /\ ticks < TickBound
  /\ serial => \/ \A t \in Threads : pc[t] = "idle"
               \/ \E t \in Threads : pc[t] = "u194"
  /\ \E d \in Steps : clock' = clock + d
  /\ ticks' = ticks + 1
  /\ UNCHANGED <<events, pc, loc, wake>>
  /\ SharedUnch /\ WriterUnch /\ GhostUnch /\ DetUnch

\* Runner.run lines 187-188: the heartbeat wakes from time.sleep(1) and calls
\* _check_display_update, which reads the clock (line 118)
Heartbeat ==
  /\ Free
  /\ pc["main"] = "idle"
  /\ clock >= wake
  /\ events < EventBound
  /\ events' = events + 1
  /\ SetLoc("main", [Loc0 EXCEPT !.now = clock,
                                 !.both0 = ~GateClosed(weather_data, train_data)])
  /\ Goto("main", "c121")
  /\ UNCHANGED wake
  /\ SharedUnch /\ WriterUnch /\ GhostUnch /\ TimeUnch /\ DetUnch

\* Runner.handle_weather_update line 64
HandleWeatherUpdate ==
  /\ Free
  /\ pc["weather"] = "idle"
  /\ events < EventBound
  /\ events' = events + 1
  /\ \E w \in WeatherSnaps : weather_data' = w
  /\ SetLoc("weather", Loc0)
  /\ Goto("weather", "w65")
  /\ UNCHANGED <<train_data, last_display_update, last_weather_change,
                 last_display_clear, previous_top_trains, next_frame, wake>>
  /\ WriterUnch /\ GhostUnch /\ TimeUnch /\ DetUnch

WeatherTimestampsNoClearReset ==
  /\ pc["weather"] = "w65"
  /\ last_weather_change' = clock
  /\ Goto("weather", "c118")
  /\ UNCHANGED <<weather_data, train_data, last_display_update, last_display_clear,
                 previous_top_trains, next_frame, loc, wake, events>>
  /\ WriterUnch /\ GhostUnch /\ TimeUnch /\ DetUnch

\* Runner.handle_weather_update lines 65-66
WeatherTimestamps ==
  /\ pc["weather"] = "w65"
  /\ last_weather_change' = clock
  /\ last_display_clear' = clock
  /\ Goto("weather", "c118")
  /\ UNCHANGED <<weather_data, train_data, last_display_update,
                 previous_top_trains, next_frame, loc, wake, events>>
  /\ WriterUnch /\ GhostUnch /\ TimeUnch /\ DetUnch

\* a snapshot stored only once it is classified as a significant change
StoredIfSignificant(old, top, trains) ==
  IF HasSignificantChange(top, GetTopTwoTrains(trains)) THEN Some(trains) ELSE old

\* Runner.handle_train_update line 80: the assignment comes before lines 81-86
StoredOnReceipt(old, top, trains) == Some(trains)

\* Runner.handle_train_update line 80
HandleTrainUpdate ==
  /\ Free
  /\ pc["subway"] = "idle"
  /\ events < EventBound
  /\ events' = events + 1
  /\ \E trains \in SchedLists :
       /\ train_data' = StoredOnReceipt(train_data, previous_top_trains, trains)
       /\ SetLoc("subway", [Loc0 EXCEPT !.trains = trains])
  /\ Goto("subway", "t81")
  /\ UNCHANGED <<weather_data, last_display_update, last_weather_change,
                 last_display_clear, previous_top_trains, next_frame, wake>>
  /\ WriterUnch /\ GhostUnch /\ TimeUnch /\ DetUnch

ClassifyTrainUpdateRefreshing ==
  /\ pc["subway"] = "t81"
  /\ SetLoc("subway",
       [loc["subway"] EXCEPT
          !.force = HasSignificantChange(previous_top_trains,
                                         GetTopTwoTrains(loc["subway"].trains))])
  /\ previous_top_trains' = GetTopTwoTrains(loc["subway"].trains)
  /\ Goto("subway", "c118")
  /\ UNCHANGED <<weather_data, train_data, last_display_update, last_weather_change,
                 last_display_clear, next_frame, wake, events>>
  /\ WriterUnch /\ GhostUnch /\ TimeUnch /\ DetUnch

\* Runner.handle_train_update lines 81-86
ClassifyTrainUpdate ==
  /\ pc["subway"] = "t81"
  /\ SetLoc("subway",
       [loc["subway"] EXCEPT
          !.force = HasSignificantChange(previous_top_trains,
                                         GetTopTwoTrains(loc["subway"].trains))])
  /\ Goto("subway", "c118")
  /\ UNCHANGED <<wake, events>>
  /\ SharedUnch /\ WriterUnch /\ GhostUnch /\ TimeUnch /\ DetUnch

\* Runner._check_display_update line 118, in a producer's callback
ReadNow(t) ==
  /\ pc[t] = "c118"
  /\ SetLoc(t, [loc[t] EXCEPT !.now = clock,
                              !.both0 = ~GateClosed(weather_data, train_data)])
  /\ Goto(t, "c121")
  /\ UNCHANGED <<wake, events>>
  /\ SharedUnch /\ WriterUnch /\ GhostUnch /\ TimeUnch /\ DetUnch

\* Runner._check_display_update lines 121-122: the cold-start gate is closed
GateReturn(t) ==
  /\ pc[t] = "c121"
  /\ GateClosed(weather_data, train_data)
  /\ Return(t)
  /\ gated' = TRUE
  /\ UNCHANGED <<events, absorbed>>
  /\ SharedUnch /\ WriterUnch /\ FrameUnch /\ TimeUnch /\ DetUnch

CheckFirstOrForceIgnoringForce(t) ==
  /\ pc[t] = "c121"
  /\ ~GateClosed(weather_data, train_data)
  /\ SetLoc(t, [loc[t] EXCEPT !.seen = last_display_update, !.clear = FALSE])
  /\ Goto(t, IF IsFirstUpdate(last_display_update) THEN "u152" ELSE "c135")
  /\ UNCHANGED <<wake, events>>
  /\ SharedUnch /\ WriterUnch /\ GhostUnch /\ TimeUnch /\ DetUnch

\* Runner._check_display_update lines 121-132: the gate is open (a snapshot,
\* once set, stays set); the first update and a forced one redraw at once
CheckFirstOrForce(t) ==
  /\ pc[t] = "c121"
  /\ ~GateClosed(weather_data, train_data)
  /\ SetLoc(t, [loc[t] EXCEPT !.seen = last_display_update, !.clear = FALSE])
  /\ Goto(t, IF IsFirstUpdate(last_display_update) \/ loc[t].force
             THEN "u152" ELSE "c135")
  /\ UNCHANGED <<wake, events>>
  /\ SharedUnch /\ WriterUnch /\ GhostUnch /\ TimeUnch /\ DetUnch

HourlyClearNoFlag(t) ==
  /\ pc[t] = "c135"
  /\ ClearDue(loc[t].now, last_display_clear)
  /\ Minute(clock) = 0
  /\ Goto(t, "u152")
  /\ UNCHANGED <<loc, wake, events>>
  /\ SharedUnch /\ WriterUnch /\ GhostUnch /\ TimeUnch /\ DetUnch

\* Runner._check_display_update lines 135-139: the hourly clear is due and the
\* minute is 0
HourlyClear(t) ==
  /\ pc[t] = "c135"
  /\ ClearDue(loc[t].now, last_display_clear)
  /\ Minute(clock) = 0
  /\ SetLoc(t, [loc[t] EXCEPT !.clear = TRUE])
  /\ Goto(t, "u152")
  /\ UNCHANGED <<wake, events>>
  /\ SharedUnch /\ WriterUnch /\ GhostUnch /\ TimeUnch /\ DetUnch

\* Runner._check_display_update lines 135-139: the hourly clear is due and the
\* minute is not 0
HourlyClearWait(t) ==
  /\ pc[t] = "c135"
  /\ ClearDue(loc[t].now, last_display_clear)
  /\ Minute(clock) # 0
  /\ Return(t)
  /\ UNCHANGED <<events, gated, absorbed>>
  /\ SharedUnch /\ WriterUnch /\ FrameUnch /\ TimeUnch /\ DetUnch

\* Runner._check_display_update line 135: the hourly clear is not due
NoHourlyClear(t) ==
  /\ pc[t] = "c135"
  /\ ~ClearDue(loc[t].now, last_display_clear)
  /\ Goto(t, "c142")
  /\ UNCHANGED <<loc, wake, events>>
  /\ SharedUnch /\ WriterUnch /\ GhostUnch /\ TimeUnch /\ DetUnch

\* Runner._check_display_update lines 142-146: min_interval has passed
IntervalRedraw(t) ==
  /\ pc[t] = "c142"
  /\ IntervalElapsed(loc[t].now, last_display_update)
  /\ SetLoc(t, [loc[t] EXCEPT !.seen = last_display_update])
  /\ Goto(t, "u152")
  /\ UNCHANGED <<wake, events>>
  /\ SharedUnch /\ WriterUnch /\ GhostUnch /\ TimeUnch /\ DetUnch

\* Runner._check_display_update lines 142-146: the event is absorbed
IntervalAbsorb(t) ==
  /\ pc[t] = "c142"
  /\ ~IntervalElapsed(loc[t].now, last_display_update)
  /\ Return(t)
  /\ absorbed' = TRUE
  /\ UNCHANGED <<events, gated>>
  /\ SharedUnch /\ WriterUnch /\ FrameUnch /\ TimeUnch /\ DetUnch

\* Runner._update_display lines 152-157 calling Display.update lines 191-193:
\* the arguments are read and getImage renders them
Render(t) ==
  /\ pc[t] = "u152"
  /\ issued' = issued + 1
  /\ SetLoc(t, [loc[t] EXCEPT !.img = GetImage(weather_data, train_data.some)])
  /\ Goto(t, "u194")
  /\ UNCHANGED <<wake, events, nsub, superseded, coalesced, gated, absorbed, doneBoth>>
  /\ SharedUnch /\ WriterUnch /\ TimeUnch /\ DetUnch

\* a failed call that is booked as an update all the same
RenderErrorMarksUpdate(t) ==
  /\ pc[t] = "u152"
  /\ issued' = issued + 1
  /\ Return(t)
  /\ last_display_update' = clock
  /\ UNCHANGED <<events, nsub, superseded, coalesced, gated, absorbed>>
  /\ UNCHANGED <<weather_data, train_data, last_weather_change,
                 last_display_clear, previous_top_trains, next_frame>>
  /\ WriterUnch /\ TimeUnch /\ DetUnch

\* getImage raises: Display.update lines 196-199 re-raise, Runner._update_display
\* lines 165-166 log, and the evaluation returns without bookkeeping
RenderError(t) ==
  /\ pc[t] = "u152"
  /\ issued' = issued + 1
  /\ Return(t)
  /\ UNCHANGED <<events, nsub, superseded, coalesced, gated, absorbed>>
  /\ SharedUnch /\ WriterUnch /\ TimeUnch /\ DetUnch

\* Display.update line 194
StoreFrame(t) ==
  /\ pc[t] = "u194"
  /\ LET frame == [id |-> nsub + 1, img |-> loc[t].img, partial |-> TRUE,
                   clear |-> loc[t].clear]
     IN  /\ next_frame' = Submit(next_frame, frame)
         /\ nsub' = nsub + 1
         /\ superseded' = IF next_frame # None
                          THEN superseded \cup {next_frame.id} ELSE superseded
         /\ coalesced' = IF next_frame # None /\ next_frame.id \notin taken
                         THEN coalesced \cup {next_frame.id} ELSE coalesced
  /\ Goto(t, "u159")
  /\ UNCHANGED <<weather_data, train_data, last_display_update, last_weather_change,
                 last_display_clear, previous_top_trains, loc, wake, events, issued,
                 gated, absorbed, doneBoth>>
  /\ WriterUnch /\ TimeUnch /\ DetUnch

\* Runner._update_display lines 159-162
MarkUpdate(t) ==
  /\ pc[t] = "u159"
  /\ last_display_clear' = IF loc[t].clear THEN clock ELSE last_display_clear
  /\ last_display_update' = clock
  /\ Goto(t, "u164")
  /\ UNCHANGED <<weather_data, train_data, last_weather_change,
                 previous_top_trains, next_frame, loc, wake, events>>
  /\ WriterUnch /\ GhostUnch /\ TimeUnch /\ DetUnch

\* Runner._update_display line 164
RefreshPrevious(t) ==
  /\ pc[t] = "u164"
  /\ previous_top_trains' = GetTopTwoTrains(train_data.some)
  /\ Return(t)
  /\ UNCHANGED <<weather_data, train_data, last_display_update, last_weather_change,
                 last_display_clear, next_frame, events, gated, absorbed>>
  /\ WriterUnch /\ FrameUnch /\ TimeUnch /\ DetUnch

RunnerUnch == UNCHANGED <<pc, loc, wake, events>>

\* Display._process_queue lines 180-181, with the slot holding a frame
WriterTake ==
  /\ wpc = "q180"
  /\ next_frame # None
  /\ wframe' = next_frame
  /\ taken' = taken \cup {next_frame.id}
  /\ wpc' = "q182"
  /\ UNCHANGED <<wwake, hw, wfirstfail>>
  /\ SharedUnch /\ RunnerUnch /\ GhostUnch /\ TimeUnch /\ DetUnch

\* Display._process_queue lines 180 and 184, with the slot empty
WriterIdle ==
  /\ wpc = "q180"
  /\ next_frame = None
  /\ wpc' = "q184"
  /\ wwake' = clock + WriterSleep
  /\ UNCHANGED <<wframe, hw, taken, wfirstfail>>
  /\ SharedUnch /\ RunnerUnch /\ GhostUnch /\ TimeUnch /\ DetUnch

\* Display._process_queue line 182: the hardware write succeeds
WriterWrite ==
  /\ wpc = "q182"
  /\ hw' = Append(hw, wframe.id)
  /\ wpc' = "q183"
  /\ UNCHANGED <<wframe, wwake, taken, wfirstfail>>
  /\ SharedUnch /\ RunnerUnch /\ GhostUnch /\ TimeUnch /\ DetUnch

\* Display._process_queue lines 182, 185-187: the hardware write raises, the
\* handler logs and the loop starts over (noted: the first failure is kept
\* track of)
WriterRaise(noted) ==
  /\ wpc = "q182"
  /\ wpc' = "q180"
  /\ wframe' = None
  /\ wfirstfail' = IF noted /\ wfirstfail = None THEN Some(nsub) ELSE wfirstfail
  /\ UNCHANGED <<wwake, hw, taken>>
  /\ SharedUnch /\ RunnerUnch /\ GhostUnch /\ TimeUnch /\ DetUnch

WriterWriteError == WriterRaise(FALSE)
WriterWriteErrorNoted == WriterRaise(TRUE)

\* Display._process_queue lines 183-184
WriterClear ==
  /\ wpc = "q183"
  /\ next_frame' = ClearSlot(next_frame, wframe)
  /\ wframe' = None
  /\ wpc' = "q184"
  /\ wwake' = clock + WriterSleep
  /\ UNCHANGED <<weather_data, train_data, last_display_update, last_weather_change,
                 last_display_clear, previous_top_trains, hw, taken, wfirstfail>>
  /\ RunnerUnch /\ GhostUnch /\ TimeUnch /\ DetUnch

\* Display._process_queue line 184: time.sleep(1) is over
WriterWake ==
  /\ wpc = "q184"
  /\ clock >= wwake
  /\ wpc' = "q180"
  /\ UNCHANGED <<wframe, wwake, hw, taken, wfirstfail>>
  /\ SharedUnch /\ RunnerUnch /\ GhostUnch /\ TimeUnch /\ DetUnch

\* the scheduler: the three threads that run Runner's handlers
Next ==
  \/ Tick
  \/ Heartbeat
  \/ HandleWeatherUpdate
  \/ WeatherTimestamps
  \/ HandleTrainUpdate
  \/ ClassifyTrainUpdate
  \/ \E t \in Threads : ReadNow(t)
  \/ \E t \in Threads : GateReturn(t)
  \/ \E t \in Threads : CheckFirstOrForce(t)
  \/ \E t \in Threads : HourlyClear(t)
  \/ \E t \in Threads : HourlyClearWait(t)
  \/ \E t \in Threads : NoHourlyClear(t)
  \/ \E t \in Threads : IntervalRedraw(t)
  \/ \E t \in Threads : IntervalAbsorb(t)
  \/ \E t \in Threads : Render(t)
  \/ \E t \in Threads : RenderError(t)
  \/ \E t \in Threads : StoreFrame(t)
  \/ \E t \in Threads : MarkUpdate(t)
  \/ \E t \in Threads : RefreshPrevious(t)

Init == SchedInitWith(TRUE) /\ DetIdle /\ ProdIdle /\ HwIdle /\ XIdle

\* the handlers called one at a time
Spec == Init /\ [][Next]_vars

ConcInit == SchedInitWith(FALSE) /\ DetIdle /\ ProdIdle /\ HwIdle /\ XIdle

\* the three threads interleaved
SpecConc == ConcInit /\ [][Next]_vars

(***************************************************************************)
(* The render sink: Display.update called by the scheduler's threads, and  *)
(* the writer thread.  The scheduler has both snapshots; a call submits    *)
(* with clear set or not.                                                  *)
(***************************************************************************)
SinkInit ==
  /\ weather_data \in WeatherSnaps
  /\ train_data = Some(<<A5, B12>>)
  /\ last_display_update = 0
  /\ last_weather_change = 0
  /\ last_display_clear = 0
  /\ previous_top_trains = <<None, None>>
  /\ next_frame = None
  /\ clock \in StartTimes
  /\ ticks = 0
  /\ events = 0
  /\ serial = FALSE
  /\ pc = [t \in Threads |-> "idle"]
  /\ loc = [t \in Threads |-> Loc0]
  /\ wake = 0
  /\ wpc = "q180"
  /\ wframe = None
  /\ wwake = 0
  /\ wfirstfail = None
  /\ nsub = 0
  /\ hw = <<>>
  /\ taken = {}
  /\ superseded = {}
  /\ coalesced = {}
  /\ issued = 0
  /\ gated = FALSE
  /\ absorbed = FALSE
  /\ doneBoth = FALSE
  /\ DetIdle
  /\ ProdIdle
  /\ HwIdle
  /\ XIdle

\* Runner._update_display line 152: a thread calls Display.update
SinkCall(t) ==
  /\ pc[t] = "idle"
  /\ events < MaxFrames
  /\ events' = events + 1
  /\ \E c \in BOOLEAN : SetLoc(t, [Loc0 EXCEPT !.clear = c])
  /\ Goto(t, "u152")
  /\ UNCHANGED wake
  /\ SharedUnch /\ WriterUnch /\ GhostUnch /\ TimeUnch /\ DetUnch

\* Display.update has stored the frame and returns
SinkReturn(t) ==
  /\ pc[t] = "u159"
  /\ Goto(t, "idle")
  /\ SetLoc(t, Loc0)
  /\ UNCHANGED <<wake, events>>
  /\ SharedUnch /\ WriterUnch /\ GhostUnch /\ TimeUnch /\ DetUnch

SinkNext ==
  \/ Tick
  \/ \E t \in Threads : SinkCall(t)
  \/ \E t \in Threads : Render(t)
  \/ \E t \in Threads : RenderError(t)
  \/ \E t \in Threads : StoreFrame(t)
  \/ \E t \in Threads : SinkReturn(t)
  \/ WriterTake
  \/ WriterIdle
  \/ WriterWrite
  \/ WriterWriteError
  \/ WriterClear
  \/ WriterWake

SpecSink == SinkInit /\ [][SinkNext]_vars

\* the same, keeping track of the first hardware write that raised
RetryNext ==
  \/ Tick
  \/ \E t \in Threads : SinkCall(t)
  \/ \E t \in Threads : Render(t)
  \/ \E t \in Threads : RenderError(t)
  \/ \E t \in Threads : StoreFrame(t)
  \/ \E t \in Threads : SinkReturn(t)
  \/ WriterTake
  \/ WriterIdle
  \/ WriterWrite
  \/ WriterWriteErrorNoted
  \/ WriterClear
  \/ WriterWake

SpecRetry == SinkInit /\ [][RetryNext]_vars

(***************************************************************************)
(* The change detector applied to two snapshots: the snapshot rendered at  *)
(* the last redraw (its top two are _previous_top_trains) and the snapshot *)
(* of the transit event being classified.                                  *)
(***************************************************************************)
DetInit ==
  /\ dPrev \in TrainLists
  /\ dCurr \in TrainLists
  /\ dpc = "call"
  /\ dResult = FALSE
  /\ SchedIdle
  /\ ProdIdle
  /\ HwIdle
  /\ XIdle

DetApply ==
  /\ dpc = "call"
  /\ dpc' = "returned"
  /\ dResult' = HasSignificantChange(GetTopTwoTrains(dPrev), GetTopTwoTrains(dCurr))
  /\ UNCHANGED <<dPrev, dCurr, svars, pvars, hvars, xvars>>

DetNext == DetApply

SpecDetect == DetInit /\ [][DetNext]_vars

(***************************************************************************)
(* The producers feeding the scheduler: the polling loops of SubwayService *)
(* and WeatherService, started by Runner.run, whose callbacks are Runner's *)
(* handlers, run on the producer's thread.                                 *)
(***************************************************************************)
SubwayInterval == 5
WeatherInterval == 300

\* what the transit feed can hold at a poll
FeedLists == { <<>>, <<A5>>, <<A5, B12>>, <<A4, B12>> }

\* the Open-Meteo response (requested with hourly and daily series)
RawResponses == { [hourly |-> h, daily |-> h] : h \in {70, 75} }

\* WeatherService.get_weather lines 236-243: the dict handed to subscribers
WeatherOf(data) ==
  [current |-> data.hourly, forecast |-> data.daily, hourly |-> data.hourly]

ProdSteps == {WeatherInterval, 3600}

\* SubwayService._should_notify
\* a comparison of the whole lists
ShouldNotifyWholeList(current, new) == current # new

\* SubwayService._should_notify
ShouldNotify(current, new) ==
  IF Len(current) = 0 \/ Len(new) = 0 THEN TRUE
  ELSE \E i \in 1..(IF Len(new) < 2 THEN Len(new) ELSE 2) :
         i > Len(current) \/ ~TrainEq(new[i], current[i])

\* WeatherService._update_loop line 50
WeatherChanged(new, current) == new # current

WeatherOnErrorPropagates == "exited"

\* WeatherService._update_loop lines 54-56: the exception is caught and the loop
\* sleeps
WeatherOnError == "w56"

\* Runner.run lines 170-197: both threads started and the heartbeat loop
\* entered (line 186), or an exception before subway_service.start_updates
\* (line 182) or before weather_service.start_updates (line 181) took run
\* straight to the finally block (line 196)
StartUps ==
  { [s |-> "s78", w |-> "w47", r |-> "r186"],
    [s |-> "off", w |-> "w47", r |-> "r196"],
    [s |-> "off", w |-> "off", r |-> "r196"] }

ProdInit ==
  /\ SchedInitWith(TRUE)
  /\ DetIdle
  /\ \E p \in StartUps : ProdInitWith(p, TRUE)
  /\ HwIdle
  /\ XIdle

SubwayUnch ==
  UNCHANGED <<s_pc, s_should_run, s_current_trains, s_new_trains, s_failed, s_wake>>
WeatherUnch ==
  UNCHANGED <<w_pc, w_should_run, w_current_data, w_weather_data, w_fails, w_wake>>
SchedUnch == SharedUnch /\ WriterUnch /\ GhostUnch /\ RunnerUnch
AuxUnch == UNCHANGED <<dvars, serial, hvars, xvars>>
LateUnch == UNCHANGED <<s_late, w_late>>
OtherUnch == AuxUnch /\ LateUnch /\ UNCHANGED r_pc

\* threading.Thread.join, guarded by `if self._update_thread:`
\* (subway_service.py lines 57-58, weather_service.py lines 40-41): returns
\* once the thread has left _update_loop, at once when none was started
\* stop_updates that does not wait for its thread
SubwayJoinSkipped == TRUE
WeatherJoinSkipped == TRUE
SubwayJoined == s_pc \in {"exited", "off"}
WeatherJoined == w_pc \in {"exited", "off"}

\* serial: the two loops poll in turn, one starting a fetch only while the other
\* is at its loop test, asleep or gone, and the weather loop not while
\* Runner.run waits for the subway thread
SubwayQuiet == s_pc \in {"s78", "s84", "exited"}
WeatherQuiet == w_pc \in {"w47", "w53", "w56", "exited"}

\* time passes while no handler runs and a loop is asleep
ProdTick ==
  /\ ticks < MaxProdTicks
  /\ \A t \in Threads : pc[t] = "idle"
  /\ \/ s_pc = "s84" /\ clock < s_wake
     \/ w_pc \in {"w53", "w56"} /\ clock < w_wake
  /\ \E d \in ProdSteps : clock' = clock + d
  /\ ticks' = ticks + 1
  /\ UNCHANGED polls
  /\ SchedUnch /\ SubwayUnch /\ WeatherUnch /\ OtherUnch

\* SubwayService._update_loop lines 78-80: get_upcoming_trains returns the
\* sorted arrivals, or [] when it caught an exception (lines 160-162)
SubwayPoll(outcomes) ==
  /\ s_pc = "s78"
  /\ s_should_run
  /\ serial => WeatherQuiet
  /\ polls < MaxPolls
  /\ polls' = polls + 1
  /\ \E o \in outcomes : s_new_trains' = o.trains /\ s_failed' = o.failed
  /\ s_pc' = "s81"
  /\ UNCHANGED <<s_should_run, s_current_trains, s_wake>>
  /\ SchedUnch /\ TimeUnch /\ WeatherUnch /\ OtherUnch

FetchOutcomes ==
  {[trains |-> l, failed |-> FALSE] : l \in FeedLists}
    \cup {[trains |-> <<>>, failed |-> TRUE]}

SubwayFetch == SubwayPoll(FetchOutcomes)

\* SubwayService._update_loop lines 81-84: on _should_notify the cache is
\* replaced and _notify_subscribers calls Runner.handle_train_update, which
\* stores the list (runner.py line 80); otherwise the loop sleeps
SubwayCheck ==
  /\ s_pc = "s81"
  /\ Free
  /\ IF ShouldNotify(s_current_trains, s_new_trains)
     THEN /\ s_current_trains' = s_new_trains
          /\ train_data' = Some(s_new_trains)
          /\ SetLoc("subway", [Loc0 EXCEPT !.trains = s_new_trains])
          /\ Goto("subway", "t81")
          /\ s_pc' = "s83"
          /\ UNCHANGED s_wake
     ELSE /\ s_pc' = "s84"
          /\ s_wake' = clock + SubwayInterval
          /\ UNCHANGED <<s_current_trains, train_data, pc, loc>>
  /\ UNCHANGED <<s_should_run, s_new_trains, s_failed, polls>>
  /\ UNCHANGED <<weather_data, last_display_update, last_weather_change,
                 last_display_clear, previous_top_trains, next_frame, wake, events>>
  /\ WriterUnch /\ GhostUnch /\ TimeUnch /\ WeatherUnch /\ OtherUnch

\* the callback has returned: SubwayService._update_loop line 84
SubwayCallbackReturn ==
  /\ s_pc = "s83"
  /\ pc["subway"] = "idle"
  /\ s_pc' = "s84"
  /\ s_wake' = clock + SubwayInterval
  /\ UNCHANGED <<s_should_run, s_current_trains, s_new_trains, s_failed, polls>>
  /\ SchedUnch /\ TimeUnch /\ WeatherUnch /\ OtherUnch

\* time.sleep(interval_seconds) is over: back to line 78
SubwayWake ==
  /\ s_pc = "s84"
  /\ clock >= s_wake
  /\ s_pc' = "s78"
  /\ UNCHANGED <<s_should_run, s_current_trains, s_new_trains, s_failed, s_wake, polls>>
  /\ SchedUnch /\ TimeUnch /\ WeatherUnch /\ OtherUnch

\* SubwayService._update_loop line 78 with _should_run false
SubwayExit ==
  /\ s_pc = "s78"
  /\ ~s_should_run
  /\ s_pc' = "exited"
  /\ UNCHANGED <<s_should_run, s_current_trains, s_new_trains, s_failed, s_wake, polls>>
  /\ SchedUnch /\ TimeUnch /\ WeatherUnch /\ OtherUnch

\* Runner.run reaches the finally block, from the heartbeat loop on
\* KeyboardInterrupt or an exception (lines 189-193) or from start-up, and
\* calls SubwayService.stop_updates (line 196), which clears the flag (line 56);
\* serial: not in the middle of a weather poll
StopSubway ==
  /\ r_pc \in {"r186", "r196"}
  /\ serial => (WeatherQuiet /\ pc["weather"] = "idle")
  /\ s_should_run' = FALSE
  /\ r_pc' = "s57"
  /\ UNCHANGED <<s_pc, s_current_trains, s_new_trains, s_failed, s_wake, polls>>
  /\ SchedUnch /\ TimeUnch /\ WeatherUnch /\ AuxUnch /\ LateUnch

\* SubwayService.stop_updates lines 57-60: join, then back in Runner.run
SubwayJoin ==
  /\ r_pc = "s57"
  /\ SubwayJoined
  /\ r_pc' = "r197"
  /\ UNCHANGED polls
  /\ SchedUnch /\ TimeUnch /\ SubwayUnch /\ WeatherUnch /\ AuxUnch /\ LateUnch

\* WeatherService._update_loop lines 47-49: get_weather stores the response in
\* _current_data (line 246) and returns the transformed dict
WeatherFetch ==
  /\ w_pc = "w47"
  /\ w_should_run
  /\ serial => (SubwayQuiet /\ r_pc # "s57")
  /\ polls < MaxPolls
  /\ polls' = polls + 1
  /\ \E data \in RawResponses :
       /\ w_current_data' = data
       /\ w_weather_data' = WeatherOf(data)
  /\ w_pc' = "w50"
  /\ UNCHANGED <<w_should_run, w_fails, w_wake>>
  /\ SchedUnch /\ TimeUnch /\ SubwayUnch /\ OtherUnch

\* get_weather raises (lines 250-253) before line 246
WeatherFetchError ==
  /\ w_pc = "w47"
  /\ w_should_run
  /\ serial => (SubwayQuiet /\ r_pc # "s57")
  /\ polls < MaxPolls
  /\ polls' = polls + 1
  /\ w_fails' = w_fails + 1
  /\ w_pc' = WeatherOnError
  /\ w_wake' = clock + WeatherInterval
  /\ UNCHANGED <<w_should_run, w_current_data, w_weather_data>>
  /\ SchedUnch /\ TimeUnch /\ SubwayUnch /\ OtherUnch

\* WeatherService._update_loop lines 50-53: on a difference the cache is
\* replaced and _notify_subscribers calls Runner.handle_weather_update, which
\* stores the dict (runner.py line 64); otherwise the loop sleeps
WeatherCheck ==
  /\ w_pc = "w50"
  /\ Free
  /\ IF WeatherChanged(w_weather_data, w_current_data)
     THEN /\ w_current_data' = w_weather_data
          /\ weather_data' = w_weather_data
          /\ SetLoc("weather", Loc0)
          /\ Goto("weather", "w65")
          /\ w_pc' = "w52"
          /\ UNCHANGED w_wake
     ELSE /\ w_pc' = "w53"
          /\ w_wake' = clock + WeatherInterval
          /\ UNCHANGED <<w_current_data, weather_data, pc, loc>>
  /\ UNCHANGED <<w_should_run, w_weather_data, w_fails, polls>>
  /\ UNCHANGED <<train_data, last_display_update, last_weather_change,
                 last_display_clear, previous_top_trains, next_frame, wake, events>>
  /\ WriterUnch /\ GhostUnch /\ TimeUnch /\ SubwayUnch /\ OtherUnch

\* the callback has returned: WeatherService._update_loop line 53
WeatherCallbackReturn ==
  /\ w_pc = "w52"
  /\ pc["weather"] = "idle"
  /\ w_pc' = "w53"
  /\ w_wake' = clock + WeatherInterval
  /\ UNCHANGED <<w_should_run, w_current_data, w_weather_data, w_fails, polls>>
  /\ SchedUnch /\ TimeUnch /\ SubwayUnch /\ OtherUnch

\* time.sleep(interval_seconds) is over (line 53 or 56): back to line 47
WeatherWake ==
  /\ w_pc \in {"w53", "w56"}
  /\ clock >= w_wake
  /\ w_pc' = "w47"
  /\ UNCHANGED <<w_should_run, w_current_data, w_weather_data, w_fails, w_wake, polls>>
  /\ SchedUnch /\ TimeUnch /\ SubwayUnch /\ OtherUnch

\* WeatherService._update_loop line 47 with _should_run false
WeatherExit ==
  /\ w_pc = "w47"
  /\ ~w_should_run
  /\ w_pc' = "exited"
  /\ UNCHANGED <<w_should_run, w_current_data, w_weather_data, w_fails, w_wake, polls>>
  /\ SchedUnch /\ TimeUnch /\ SubwayUnch /\ OtherUnch

\* WeatherService.stop_updates line 39, called by Runner.run line 197
StopWeather ==
  /\ r_pc = "r197"
  /\ w_should_run' = FALSE
  /\ r_pc' = "w40"
  /\ UNCHANGED <<w_pc, w_current_data, w_weather_data, w_fails, w_wake, polls>>
  /\ SchedUnch /\ TimeUnch /\ SubwayUnch /\ AuxUnch /\ LateUnch

\* WeatherService.stop_updates lines 40-43: join, then Runner.run returns
WeatherJoin ==
  /\ r_pc = "w40"
  /\ WeatherJoined
  /\ r_pc' = "done"
  /\ UNCHANGED polls
  /\ SchedUnch /\ TimeUnch /\ SubwayUnch /\ WeatherUnch /\ AuxUnch /\ LateUnch

ProdOther ==
  \/ ProdTick
  \/ SubwayCheck
  \/ SubwayCallbackReturn
  \/ SubwayWake
  \/ SubwayExit
  \/ StopSubway
  \/ SubwayJoin
  \/ WeatherFetch
  \/ WeatherFetchError
  \/ WeatherCheck
  \/ WeatherCallbackReturn
  \/ WeatherWake
  \/ WeatherExit
  \/ StopWeather
  \/ WeatherJoin
  \/ WeatherTimestamps
  \/ ClassifyTrainUpdate
  \/ \E t \in Threads : ReadNow(t)
  \/ \E t \in Threads : GateReturn(t)
  \/ \E t \in Threads : CheckFirstOrForce(t)
  \/ \E t \in Threads : HourlyClear(t)
  \/ \E t \in Threads : HourlyClearWait(t)
  \/ \E t \in Threads : NoHourlyClear(t)
  \/ \E t \in Threads : IntervalRedraw(t)
  \/ \E t \in Threads : IntervalAbsorb(t)
  \/ \E t \in Threads : Render(t)
  \/ \E t \in Threads : RenderError(t)
  \/ \E t \in Threads : StoreFrame(t)
  \/ \E t \in Threads : MarkUpdate(t)
  \/ \E t \in Threads : RefreshPrevious(t)

ProdNext ==
  \/ SubwayFetch
  \/ ProdOther

\* the polling loops and their callbacks, one poll at a time
SpecProd == ProdInit /\ [][ProdNext]_vars

\* the same with a feed of three snapshots: two arrivals, the same two with a
\* third behind them, and the first of the two a minute closer
ScenarioLists == { <<A5, B12>>, <<A5, B12, C12>>, <<A4, B12>> }
ScenarioOutcomes == {[trains |-> l, failed |-> FALSE] : l \in ScenarioLists}

SubwayFetchScenario == SubwayPoll(ScenarioOutcomes)

ScenarioNext ==
  \/ SubwayFetchScenario
  \/ ProdOther

SpecScenario == ProdInit /\ [][ScenarioNext]_vars

(***************************************************************************)
(* The panel driver: EInkDisplay.update applied to a sequence of bitmaps.  *)
(* A bitmap is the set of its black pixels, taken from a few positions     *)
(* that put difference boxes on both sides of the 50 px limit.             *)
(***************************************************************************)
MaxPartialSide == 50

Pixels ==
  { [x |-> 0, y |-> 0], [x |-> 49, y |-> 0], [x |-> 50, y |-> 0],
    [x |-> 0, y |-> 49], [x |-> 0, y |-> 50] }
Bitmaps == SUBSET Pixels

MinOf(S) == CHOOSE m \in S : \A n \in S : m <= n
MaxOf(S) == CHOOSE m \in S : \A n \in S : m >= n

\* ImageChops.difference(img1, img2): the pixels where the two differ
Difference(img1, img2) == (img1 \ img2) \cup (img2 \ img1)

\* Image.getbbox: None for an all-zero image, else (left, upper, right, lower)
\* with right and lower one past the last non-zero column and row
GetBBox(d) ==
  IF d = {} THEN None
  ELSE [left  |-> MinOf({p.x : p \in d}), upper |-> MinOf({p.y : p \in d}),
        right |-> MaxOf({p.x : p \in d}) + 1, lower |-> MaxOf({p.y : p \in d}) + 1]

\* EInkDisplay._get_diff_box lines 125-128
GetDiffBox(img1, img2) == GetBBox(Difference(img1, img2))

\* a limit test that needs both sides over the limit
BoxTooLargeBoth(box) ==
  box.right - box.left > MaxPartialSide /\ box.lower - box.upper > MaxPartialSide
\* EInkDisplay.update line 141
BoxTooLarge(box) ==
  box.right - box.left > MaxPartialSide \/ box.lower - box.upper > MaxPartialSide

\* EInkDisplay.update lines 135-143: the box of the partial write, or None
DiffBoxFor(prev, img) ==
  LET diff_box == IF prev # None THEN GetDiffBox(prev.some, img) ELSE None
  IN IF diff_box # None /\ BoxTooLarge(diff_box) THEN None ELSE diff_box

\* a cache advanced before the write is known to have succeeded
PreviousOnErrorAdvanced(prev, img) == Some(img)
\* EInkDisplay.update lines 152-155: the exception skips line 150
PreviousOnError(prev, img) == prev

HwInit ==
  /\ SchedInitWith(TRUE)
  /\ DetIdle
  /\ ProdIdle
  /\ HwIdle
  /\ XIdle

HwUnch == UNCHANGED <<svars, dvars, pvars, xvars>>

\* EInkDisplay.update lines 130-143, called with a bitmap and the two flags
EUpdateCall ==
  /\ e_pc = "idle"
  /\ e_calls < MaxWrites
  /\ e_calls' = e_calls + 1
  /\ \E img \in Bitmaps, partial \in BOOLEAN, clear \in BOOLEAN :
       e_arg' = Some([img |-> img, partial |-> partial, clear |-> clear,
                      diff_box |-> DiffBoxFor(previous_image, img),
                      prev |-> previous_image])
  /\ e_pc' = "e145"
  /\ UNCHANGED <<previous_image, e_op, e_good>>
  /\ HwUnch

\* lines 145-150: _update_partial_display on the box, or _update_display on
\* the whole frame (clearing first when asked), then the cache is advanced
EWrite ==
  /\ e_pc = "e145"
  /\ LET a == e_arg.some
     IN /\ e_op' = IF a.partial /\ a.diff_box # None
                   THEN [mode |-> "partial", box |-> a.diff_box, img |-> a.img]
                   ELSE [mode |-> "full", clear |-> a.clear, img |-> a.img]
        /\ e_good' = Some(a.img)
        /\ previous_image' = Some(a.img)
  /\ e_pc' = "idle"
  /\ UNCHANGED <<e_arg, e_calls>>
  /\ HwUnch

\* lines 145-148 raise: lines 152-155 log and re-raise
EWriteError ==
  /\ e_pc = "e145"
  /\ e_op' = [mode |-> "failed"]
  /\ previous_image' = PreviousOnError(previous_image, e_arg.some.img)
  /\ e_pc' = "idle"
  /\ UNCHANGED <<e_arg, e_good, e_calls>>
  /\ HwUnch

HwNext ==
  \/ EUpdateCall
  \/ EWrite
  \/ EWriteError

SpecHw == HwInit /\ [][HwNext]_vars

(***************************************************************************)
(* One notification round: _update_loop has decided to notify, stores the  *)
(* snapshot in the cache and calls every registered subscriber.            *)
(***************************************************************************)
SubscriberKinds == {"ok", "raises"}

\* the snapshot being delivered: a train list (SubwayService) or a weather
\* dict (WeatherService)
Snapshots ==
  {[trains |-> l] : l \in FeedLists} \cup {[weather |-> WeatherOf(r)] : r \in RawResponses}

\* a loop that lets the exception end the round
AfterSubscriberErrorAbort(i, n) == n + 1
\* _notify_subscribers lines 92-95 (subway), 61-64 (weather): the exception is
\* caught inside the for loop, which goes on with the next subscriber
AfterSubscriberError(i, n) == i + 1

NotifyInit ==
  /\ SchedInitWith(TRUE)
  /\ DetIdle
  /\ ProdIdle
  /\ HwIdle
  /\ XIdleBut("notify")
  /\ n_pc = "n82"
  /\ n_subs \in SeqsUpTo(SubscriberKinds, MaxSubs)
  /\ n_new \in Snapshots
  /\ n_cache = None
  /\ n_i = 0
  /\ n_calls = <<>>

NotifyUnch == UNCHANGED <<svars, dvars, pvars, hvars>> /\ XUnchBut("notify")

\* subway_service.py line 82, weather_service.py line 51
NotifyAssign ==
  /\ n_pc = "n82"
  /\ n_cache' = n_new
  /\ n_i' = 1
  /\ n_pc' = "n91"
  /\ UNCHANGED <<n_subs, n_new, n_calls>>
  /\ NotifyUnch

\* _notify_subscribers: the next subscriber is called and returns or raises
NotifyCall ==
  /\ n_pc = "n91"
  /\ n_i <= Len(n_subs)
  /\ n_calls' = Append(n_calls, [sub |-> n_i, data |-> n_new])
  /\ n_i' = IF n_subs[n_i] = "raises"
            THEN AfterSubscriberError(n_i, Len(n_subs))
            ELSE n_i + 1
  /\ UNCHANGED <<n_pc, n_subs, n_new, n_cache>>
  /\ NotifyUnch

\* the for loop is over: _update_loop goes to sleep (line 84 / 53)
NotifyReturn ==
  /\ n_pc = "n91"
  /\ n_i > Len(n_subs)
  /\ n_pc' = "n84"
  /\ UNCHANGED <<n_subs, n_new, n_cache, n_i, n_calls>>
  /\ NotifyUnch

NotifyNext ==
  \/ NotifyAssign
  \/ NotifyCall
  \/ NotifyReturn

SpecNotify == NotifyInit /\ [][NotifyNext]_vars

(***************************************************************************)
(* TrainArrival.__eq__ applied to two values.                              *)
(***************************************************************************)
\* values that are no TrainArrival: a tuple and an object with two of the
\* fields
Foreign ==
  { [tuple |-> <<"A", 5>>], [train_id |-> "A", minutes_until_arrival |-> 5] }

EqOperands == TrainArrival \cup {None} \cup Foreign

EqInit ==
  /\ SchedInitWith(TRUE)
  /\ DetIdle
  /\ ProdIdle
  /\ HwIdle
  /\ XIdleBut("eq")
  /\ q_a \in TrainArrival
  /\ q_b \in EqOperands
  /\ q_pc = "call"
  /\ q_res = None

EqApply ==
  /\ q_pc = "call"
  /\ q_pc' = "returned"
  /\ q_res' = [ab |-> PyEq(q_a, q_b), ba |-> PyEq(q_b, q_a), aa |-> PyEq(q_a, q_a)]
  /\ UNCHANGED <<q_a, q_b>>
  /\ UNCHANGED <<svars, dvars, pvars, hvars>> /\ XUnchBut("eq")

EqNext == EqApply

SpecEq == EqInit /\ [][EqNext]_vars

(***************************************************************************)
(* The long run: the heartbeat every second and the weather producer       *)
(* polling every 300 s, over more than two hours of wall-clock time.  Each *)
(* handler runs to completion; rendering succeeds.                         *)
(***************************************************************************)

\* an evaluation that redraws on the first update and on a forced one only
DecisionEventDriven(weather, trains, ldu, ldc, now, force) ==
  IF GateClosed(weather, trains) THEN "none"
  ELSE IF IsFirstUpdate(ldu) \/ force THEN "redraw"
  ELSE "none"

\* Runner._check_display_update lines 121-146: what an evaluation does
Decision(weather, trains, ldu, ldc, now, force) ==
  IF GateClosed(weather, trains) THEN "none"
  ELSE IF IsFirstUpdate(ldu) THEN "redraw"
  ELSE IF force THEN "redraw"
  ELSE IF ClearDue(now, ldc)
       THEN (IF Minute(now) = 0 THEN "clear" ELSE "none")
  ELSE IF IntervalElapsed(now, ldu) THEN "redraw"
  ELSE "none"

HourInit ==
  /\ SchedInitWith(TRUE)
  /\ DetIdle
  /\ ProdIdle
  /\ HwIdle
  /\ XIdleBut("hour")
  /\ k_last_clear = -1
  /\ k_since = None

HourUnch ==
  /\ UNCHANGED <<ticks, events, serial, pc, loc, wake, issued, gated, absorbed,
                 doneBoth, superseded, coalesced>>
  /\ WriterUnch
  /\ UNCHANGED <<s_pc, s_should_run, s_current_trains, s_new_trains, s_failed,
                 s_wake, w_pc, w_should_run, w_fails, polls, r_pc, s_late, w_late>>
  /\ UNCHANGED <<dvars, hvars>>
  /\ XUnchBut("hour")

\* Runner._check_display_update and, when it redraws, Runner._update_display
\* lines 152-164 with Display.update lines 191-194, at time now with
\* last_display_clear = ldc
Redraw(id, now, weather, trains, ldu, ldc, force) ==
  LET d == Decision(weather, trains, ldu, ldc, now, force)
      frame == [id |-> id, img |-> GetImage(weather, trains.some),
                partial |-> TRUE, clear |-> (d = "clear")]
  IN  IF d = "none"
      THEN /\ last_display_clear' = ldc
           /\ last_display_update' = ldu
           /\ UNCHANGED <<previous_top_trains, next_frame>>
      ELSE /\ next_frame' = Submit(next_frame, frame)
           /\ last_display_clear' = IF d = "clear" THEN now ELSE ldc
           /\ last_display_update' = now
           /\ previous_top_trains' = GetTopTwoTrains(trains.some)

\* the same, with the frames numbered in the order of their submission
Evaluate(now, weather, trains, ldc, force) ==
  /\ Redraw(nsub + 1, now, weather, trains, last_display_update, ldc, force)
  /\ nsub' =
       IF Decision(weather, trains, last_display_update, ldc, now, force) = "none"
       THEN nsub ELSE nsub + 1

\* an evaluation of the long run, which keeps track of the redraws with
\* clear=true and of the time since which both snapshots have been set
HourEvaluate(now, weather, trains, ldc, force) ==
  /\ Evaluate(now, weather, trains, ldc, force)
  /\ k_last_clear' =
       IF Decision(weather, trains, last_display_update, ldc, now, force) = "clear"
       THEN now ELSE k_last_clear
  /\ k_since' = IF k_since = None /\ ~GateClosed(weather, trains)
                THEN Some(now) ELSE k_since

\* SubwayService._update_loop notifies the first snapshot at start-up:
\* Runner.handle_train_update lines 80-86; the feed then stays as it is
HourTrainUpdate ==
  /\ train_data = None
  /\ \E trains \in ScenarioLists :
       /\ train_data' = Some(trains)
       /\ HourEvaluate(clock, weather_data, Some(trains), last_display_clear,
                       HasSignificantChange(previous_top_trains,
                                            GetTopTwoTrains(trains)))
  /\ UNCHANGED <<weather_data, last_weather_change, clock,
                 w_current_data, w_weather_data, w_wake>>
  /\ HourUnch

\* WeatherService._update_loop lines 47-53, a successful poll when the sleep
\* of 300 s is over: get_weather leaves the raw response in _current_data and
\* returns the transformed dict, the two are compared, and on a difference
\* Runner.handle_weather_update lines 64-67 runs
HourWeatherPoll ==
  /\ clock >= w_wake
  /\ \E data \in RawResponses :
       LET new == WeatherOf(data)
       IN  /\ w_weather_data' = new
           /\ IF WeatherChanged(new, data)
              THEN /\ w_current_data' = new
                   /\ weather_data' = new
                   /\ last_weather_change' = clock
                   /\ HourEvaluate(clock, new, train_data, clock, FALSE)
              ELSE /\ w_current_data' = data
                   /\ UNCHANGED <<weather_data, last_weather_change,
                                  last_display_update, last_display_clear,
                                  previous_top_trains, next_frame, nsub, kvars>>
  /\ w_wake' = clock + WeatherInterval
  /\ UNCHANGED <<train_data, clock>>
  /\ HourUnch

\* Runner.run lines 185-188: time.sleep(1) ends a second later and
\* _check_display_update runs.  No handler of a producer is due.
HourHeartbeat ==
  /\ clock < w_wake
  /\ train_data # None
  /\ clock < 3600 + MaxHourSecs
  /\ clock' = clock + HeartbeatSleep
  /\ HourEvaluate(clock + HeartbeatSleep, weather_data, train_data,
                  last_display_clear, FALSE)
  /\ UNCHANGED <<weather_data, train_data, last_weather_change,
                 w_current_data, w_weather_data, w_wake>>
  /\ HourUnch

HourNext ==
  \/ HourTrainUpdate
  \/ HourWeatherPoll
  \/ HourHeartbeat

SpecHour == HourInit /\ [][HourNext]_vars

(***************************************************************************)
(* The scheduler once the first redraw is done: the weather and the        *)
(* transit snapshot have been notified and handled, one after the other,   *)
(* at start-up.  From there the three threads interleave statement by      *)
(* statement.                                                              *)
(***************************************************************************)
RaceInit ==
  /\ serial = FALSE
  /\ clock \in StartTimes
  /\ weather_data \in WeatherSnaps
  /\ train_data = Some(<<A5, B12>>)
  /\ last_display_update = clock
  /\ last_weather_change = clock
  /\ last_display_clear = clock
  /\ previous_top_trains = GetTopTwoTrains(<<A5, B12>>)
  /\ next_frame = [id |-> 1, img |-> GetImage(weather_data, <<A5, B12>>),
                   partial |-> TRUE, clear |-> FALSE]
  /\ ticks = 0
  /\ events = 0
  /\ pc = [t \in Threads |-> "idle"]
  /\ loc = [t \in Threads |-> Loc0]
  /\ wake = 0
  /\ wpc = "q180"
  /\ wframe = None
  /\ wwake = 0
  /\ wfirstfail = None
  /\ nsub = 1
  /\ hw = <<>>
  /\ taken = {}
  /\ superseded = {}
  /\ coalesced = {}
  /\ issued = 1
  /\ gated = TRUE
  /\ absorbed = FALSE
  /\ doneBoth = TRUE
  /\ DetIdle
  /\ ProdIdle
  /\ HwIdle
  /\ XIdle

\* the gate of _check_display_update stays open: both snapshots are set
RaceNext ==
  \/ Tick
  \/ Heartbeat
  \/ HandleWeatherUpdate
  \/ WeatherTimestamps
  \/ HandleTrainUpdate
  \/ ClassifyTrainUpdate
  \/ \E t \in Threads : ReadNow(t)
  \/ \E t \in Threads : CheckFirstOrForce(t)
  \/ \E t \in Threads : HourlyClear(t)
  \/ \E t \in Threads : HourlyClearWait(t)
  \/ \E t \in Threads : NoHourlyClear(t)
  \/ \E t \in Threads : IntervalRedraw(t)
  \/ \E t \in Threads : IntervalAbsorb(t)
  \/ \E t \in Threads : Render(t)
  \/ \E t \in Threads : RenderError(t)
  \/ \E t \in Threads : StoreFrame(t)
  \/ \E t \in Threads : MarkUpdate(t)
  \/ \E t \in Threads : RefreshPrevious(t)

SpecRace == RaceInit /\ [][RaceNext]_vars

(***************************************************************************)
(* start_updates and stop_updates of the two producers, called one after   *)
(* the other by one caller, and the polling threads they create.           *)
(***************************************************************************)
Producers == {"subway", "weather"}

\* threading.Thread.is_alive: the thread has been started and has not ended
IsAlive(loops, i) == loops[i] # "exited"

\* the _update_loop threads of a producer that are running
Running(loops) == {i \in 1..Len(loops) : IsAlive(loops, i)}

\* a test that never finds the thread
AlreadyRunningNever(thread, loops) == FALSE

\* start_updates: "self._update_thread and self._update_thread.is_alive()"
AlreadyRunning(thread, loops) == thread # 0 /\ IsAlive(loops, thread)

StartInit ==
  /\ SchedInitWith(TRUE)
  /\ DetIdle
  /\ ProdIdle
  /\ HwIdle
  /\ XIdleBut("start")
  /\ u_thread = [p \in Producers |-> 0]
  /\ u_should_run = [p \in Producers |-> FALSE]
  /\ u_loops = [p \in Producers |-> <<>>]
  /\ u_join = "none"
  /\ u_log = <<>>

StartUnch == UNCHANGED <<svars, dvars, pvars, hvars>> /\ XUnchBut("start")

\* start_updates while the thread is alive: the warning and the return
StartWhileRunning(p) ==
  /\ u_join = "none"
  /\ Len(u_log) < MaxCalls
  /\ AlreadyRunning(u_thread[p], u_loops[p])
  /\ u_log' = Append(u_log, [op |-> "start", p |-> p])
  /\ UNCHANGED <<u_thread, u_should_run, u_loops, u_join>>
  /\ StartUnch

\* start_updates: _should_run is set and a new thread is created and started
StartThread(p) ==
  /\ u_join = "none"
  /\ Len(u_log) < MaxCalls
  /\ ~AlreadyRunning(u_thread[p], u_loops[p])
  /\ u_log' = Append(u_log, [op |-> "start", p |-> p])
  /\ u_should_run' = [u_should_run EXCEPT ![p] = TRUE]
  /\ u_loops' = [u_loops EXCEPT ![p] = Append(@, "test")]
  /\ u_thread' = [u_thread EXCEPT ![p] = Len(u_loops[p]) + 1]
  /\ UNCHANGED u_join
  /\ StartUnch

\* stop_updates: _should_run is cleared; with a thread the caller goes on to
\* join it
StopUpdates(p) ==
  /\ u_join = "none"
  /\ Len(u_log) < MaxCalls
  /\ u_log' = Append(u_log, [op |-> "stop", p |-> p])
  /\ u_should_run' = [u_should_run EXCEPT ![p] = FALSE]
  /\ u_join' = IF u_thread[p] # 0 THEN p ELSE "none"
  /\ UNCHANGED <<u_thread, u_loops>>
  /\ StartUnch

\* stop_updates: join returns once the thread has ended, and _update_thread
\* is set to None
StopJoined(p) ==
  /\ u_join = p
  /\ ~IsAlive(u_loops[p], u_thread[p])
  /\ u_thread' = [u_thread EXCEPT ![p] = 0]
  /\ u_join' = "none"
  /\ UNCHANGED <<u_should_run, u_loops, u_log>>
  /\ StartUnch

\* _update_loop: the while test; the thread ends when _should_run is false
LoopTest(p, i) ==
  /\ i \in 1..Len(u_loops[p])
  /\ u_loops[p][i] = "test"
  /\ u_loops' = [u_loops EXCEPT ![p][i] = IF u_should_run[p] THEN "body" ELSE "exited"]
  /\ UNCHANGED <<u_thread, u_should_run, u_join, u_log>>
  /\ StartUnch

\* _update_loop: the poll, the notification and the sleep, with or without
\* an exception
LoopBody(p, i) ==
  /\ i \in 1..Len(u_loops[p])
  /\ u_loops[p][i] = "body"
  /\ u_loops' = [u_loops EXCEPT ![p][i] = "test"]
  /\ UNCHANGED <<u_thread, u_should_run, u_join, u_log>>
  /\ StartUnch

StartNext ==
  \/ \E p \in Producers : StartWhileRunning(p)
  \/ \E p \in Producers : StartThread(p)
  \/ \E p \in Producers : StopUpdates(p)
  \/ \E p \in Producers : StopJoined(p)
  \/ \E p \in Producers, i \in 1..MaxCalls : LoopTest(p, i)
  \/ \E p \in Producers, i \in 1..MaxCalls : LoopBody(p, i)

SpecStart == StartInit /\ [][StartNext]_vars

(***************************************************************************)
(* A callback that subscribes while the producers run.                     *)
(***************************************************************************)
\* bool(list), bool(dict or None) of the `if` in subscribe
ListTruthy(l) == Len(l) # 0
DictTruthy(d) == d # None

\* SubwayService.subscribe lines 38-40 (one late subscription per run)
SubscribeTrains ==
  /\ s_late = None /\ w_late = None
  /\ Free
  /\ s_late' = Some(IF ListTruthy(s_current_trains) THEN <<s_current_trains>>
                                                    ELSE <<>>)
  /\ UNCHANGED <<w_late, r_pc, polls>>
  /\ SchedUnch /\ TimeUnch /\ SubwayUnch /\ WeatherUnch /\ AuxUnch

\* WeatherService.subscribe lines 21-23 (one late subscription per run)
SubscribeWeather ==
  /\ s_late = None /\ w_late = None
  /\ Free
  /\ w_late' = Some(IF DictTruthy(w_current_data) THEN <<w_current_data>>
                                                  ELSE <<>>)
  /\ UNCHANGED <<s_late, r_pc, polls>>
  /\ SchedUnch /\ TimeUnch /\ SubwayUnch /\ WeatherUnch /\ AuxUnch

SubNext ==
  \/ ProdNext
  \/ SubscribeTrains
  \/ SubscribeWeather

SpecSub == ProdInit /\ [][SubNext]_vars

(***************************************************************************)
(* Start-up: Runner.__init__ has created the Display, whose writer thread  *)
(* is running, and Runner.run goes through its steps.  The producers poll  *)
(* once started and call the handlers subscribed to them; each handler     *)
(* runs to completion.                                                     *)
(***************************************************************************)

\* an order that initializes the display after the producers are started
RunOrderInitializeLast ==
  << "subscribe_weather", "subscribe_subway", "start_weather", "start_subway",
     "initialize", "loop" >>

\* Runner.run lines 174-188
RunOrder ==
  << "initialize", "subscribe_weather", "subscribe_subway", "start_weather",
     "start_subway", "loop" >>

\* Runner.run has left its try block
Ended == Len(RunOrder) + 1

AtStep(name) == b_i \in 1..Len(RunOrder) /\ RunOrder[b_i] = name

BootInit ==
  /\ SchedInitWith(TRUE)
  /\ DetIdle
  /\ ProdIdle
  /\ HwIdle
  /\ XIdleBut("boot")
  /\ b_i = 1
  /\ b_backend = None
  /\ b_subs = {}
  /\ b_started = {}

BootRest ==
  /\ UNCHANGED <<ticks, events, serial, pc, loc, wake, issued, gated, absorbed,
                 doneBoth, superseded, coalesced>>
  /\ UNCHANGED <<s_pc, s_should_run, s_new_trains, s_failed, w_pc, w_should_run,
                 w_fails, polls, r_pc, s_late, w_late>>
  /\ UNCHANGED <<dvars, hvars>>
  /\ XUnchBut("boot")

NoHandler ==
  UNCHANGED <<weather_data, train_data, last_weather_change, last_display_update,
              last_display_clear, previous_top_trains, next_frame, nsub>>

\* Runner.handle_weather_update lines 64-67
BootHandleWeather(new) ==
  /\ weather_data' = new
  /\ last_weather_change' = clock
  /\ Evaluate(clock, new, train_data, clock, FALSE)
  /\ UNCHANGED train_data

\* Runner.handle_train_update lines 80-86
BootHandleTrain(trains) ==
  /\ train_data' = StoredOnReceipt(train_data, previous_top_trains, trains)
  /\ Evaluate(clock, weather_data, Some(trains), last_display_clear,
              HasSignificantChange(previous_top_trains, GetTopTwoTrains(trains)))
  /\ UNCHANGED <<weather_data, last_weather_change>>

ProducerCaches == <<s_current_trains, s_wake, w_current_data, w_weather_data, w_wake>>

\* Display.initialize lines 166-174 returns: the backend is set
BootInitialize ==
  /\ AtStep("initialize")
  /\ b_backend' = Some("backend")
  /\ b_i' = b_i + 1
  /\ NoHandler
  /\ UNCHANGED <<clock, b_subs, b_started, ProducerCaches>>
  /\ WriterUnch /\ BootRest

\* Display.initialize raises, before or after line 168/170 has assigned the
\* backend: Runner.run lines 192-197 log and stop both producers
BootInitializeError ==
  /\ AtStep("initialize")
  /\ b_backend' \in {None, Some("backend")}
  /\ b_i' = Ended
  /\ b_started' = {}
  /\ NoHandler
  /\ UNCHANGED <<clock, b_subs, ProducerCaches>>
  /\ WriterUnch /\ BootRest

\* WeatherService.subscribe lines 20-24, called at Runner.run line 177
BootSubscribeWeather ==
  /\ AtStep("subscribe_weather")
  /\ b_subs' = b_subs \cup {"weather"}
  /\ b_i' = b_i + 1
  /\ IF DictTruthy(w_current_data)
     THEN BootHandleWeather(w_current_data)
     ELSE NoHandler
  /\ UNCHANGED <<clock, b_backend, b_started, ProducerCaches>>
  /\ WriterUnch /\ BootRest

\* SubwayService.subscribe lines 36-40, called at Runner.run line 178
BootSubscribeSubway ==
  /\ AtStep("subscribe_subway")
  /\ b_subs' = b_subs \cup {"subway"}
  /\ b_i' = b_i + 1
  /\ IF ListTruthy(s_current_trains)
     THEN BootHandleTrain(s_current_trains)
     ELSE NoHandler
  /\ UNCHANGED <<clock, b_backend, b_started, ProducerCaches>>
  /\ WriterUnch /\ BootRest

\* start_updates, Runner.run lines 181-182
BootStart(p) ==
  /\ AtStep(IF p = "weather" THEN "start_weather" ELSE "start_subway")
  /\ b_started' = b_started \cup {p}
  /\ b_i' = b_i + 1
  /\ NoHandler
  /\ UNCHANGED <<clock, b_backend, b_subs, ProducerCaches>>
  /\ WriterUnch /\ BootRest

\* WeatherService._update_loop lines 47-53, a successful poll
BootWeatherPoll ==
  /\ "weather" \in b_started
  /\ clock >= w_wake
  /\ \E data \in RawResponses :
       LET new == WeatherOf(data)
       IN  /\ w_weather_data' = new
           /\ IF WeatherChanged(new, data)
              THEN /\ w_current_data' = new
                   /\ IF "weather" \in b_subs
                      THEN BootHandleWeather(new)
                      ELSE NoHandler
              ELSE /\ w_current_data' = data
                   /\ NoHandler
  /\ w_wake' = clock + WeatherInterval
  /\ UNCHANGED <<clock, bvars, s_current_trains, s_wake>>
  /\ WriterUnch /\ BootRest

\* SubwayService._update_loop lines 77-83, a successful poll
BootSubwayPoll ==
  /\ "subway" \in b_started
  /\ clock >= s_wake
  /\ \E new \in FeedLists :
       IF ShouldNotify(s_current_trains, new)
       THEN /\ s_current_trains' = new
            /\ IF "subway" \in b_subs
               THEN BootHandleTrain(new)
               ELSE NoHandler
       ELSE /\ UNCHANGED s_current_trains
            /\ NoHandler
  /\ s_wake' = clock + SubwayInterval
  /\ UNCHANGED <<clock, bvars, w_current_data, w_weather_data, w_wake>>
  /\ WriterUnch /\ BootRest

\* Runner.run lines 185-188: time.sleep(1) ends a second later and
\* _check_display_update runs
BootHeartbeat ==
  /\ AtStep("loop")
  /\ clock < 3600 + MaxBootSecs
  /\ clock' = clock + HeartbeatSleep
  /\ Evaluate(clock + HeartbeatSleep, weather_data, train_data,
              last_display_clear, FALSE)
  /\ UNCHANGED <<weather_data, train_data, last_weather_change, bvars, ProducerCaches>>
  /\ WriterUnch /\ BootRest

\* Display._process_queue line 182 with a backend: EInkDisplay.update returns
BootWrite ==
  /\ b_backend # None
  /\ WriterWrite

BootNext ==
  \/ BootInitialize
  \/ BootInitializeError
  \/ BootSubscribeWeather
  \/ BootSubscribeSubway
  \/ \E p \in Producers : BootStart(p)
  \/ BootWeatherPoll
  \/ BootSubwayPoll
  \/ BootHeartbeat
  \/ WriterTake
  \/ WriterIdle
  \/ BootWrite
  \/ WriterWriteError
  \/ WriterClear
  \/ WriterWake

SpecBoot == BootInit /\ [][BootNext]_vars

(***************************************************************************)
(* The scheduler and the writer for ever: the producers deliver some       *)
(* events and go quiet, the heartbeat and the writer loop go on.  Each     *)
(* handler runs to completion, rendering and hardware writes succeed.      *)
(* time.sleep(1) of the heartbeat ends a second later or, the thread being *)
(* scheduled late, at the next start of a minute 59 or of an hour,         *)
(* whichever comes first.  Time is                                         *)
(* kept within one hour: when the clock reaches the end of the hour the    *)
(* origin of time is moved by 3600 s, which changes none of the            *)
(* differences and none of the wall-clock minutes the code looks at.       *)
(***************************************************************************)
Hour == 3600

\* a time after the origin has moved; 0 stays 0 (last_display_update == 0 is
\* the code's "never"), and a time more than an hour old stays more than
\* 3500 s old
Shift(t) == IF t = 0 THEN 0 ELSE IF t - Hour < 1 THEN 1 ELSE t - Hour

LiveInit ==
  /\ SchedInitWith(TRUE)
  /\ DetIdle
  /\ ProdIdle
  /\ HwIdle
  /\ XIdleBut("live")
  /\ l_shown = None
  /\ l_stopped = FALSE

\* the next time after t that is m seconds into an hour
NextMark(t, m) ==
  LET base == t - (t % Hour) + m
  IN  IF base > t THEN base ELSE base + Hour

\* when time.sleep(1), begun at t, can end; ticks counts the sleeps in a row
\* that ended after one second
WakeTimes(t) ==
  (IF ticks < MaxLiveSecs THEN {t + HeartbeatSleep} ELSE {})
    \cup {IF NextMark(t, 59 * 60) < NextMark(t, 0)
          THEN NextMark(t, 59 * 60) ELSE NextMark(t, 0)}

LiveRest ==
  /\ UNCHANGED <<serial, pc, loc, wake, nsub, issued, gated, absorbed,
                 doneBoth, superseded, coalesced>>
  /\ UNCHANGED <<dvars, pvars, hvars>>
  /\ XUnchBut("live")

\* Runner.handle_weather_update lines 64-67, called by the weather producer
LiveWeather ==
  /\ ~l_stopped
  /\ events < MaxLiveEvents
  /\ clock < Hour + MaxLiveSecs
  /\ events' = events + 1
  /\ \E w \in WeatherSnaps :
       /\ weather_data' = w
       /\ Redraw(1, clock, w, train_data, last_display_update, clock, FALSE)
  /\ last_weather_change' = clock
  /\ UNCHANGED <<train_data, clock, ticks, lvars>>
  /\ WriterUnch /\ LiveRest

\* Runner.handle_train_update lines 80-86, called by the subway producer
LiveTrain ==
  /\ ~l_stopped
  /\ events < MaxLiveEvents
  /\ clock < Hour + MaxLiveSecs
  /\ events' = events + 1
  /\ \E trains \in ScenarioLists :
       /\ train_data' = StoredOnReceipt(train_data, previous_top_trains, trains)
       /\ Redraw(1, clock, weather_data, Some(trains), last_display_update,
                 last_display_clear,
                 HasSignificantChange(previous_top_trains, GetTopTwoTrains(trains)))
  /\ UNCHANGED <<weather_data, last_weather_change, clock, ticks, lvars>>
  /\ WriterUnch /\ LiveRest

\* the producers deliver nothing from now on
LiveStop ==
  /\ ~l_stopped
  /\ l_stopped' = TRUE
  /\ UNCHANGED <<l_shown, events, clock, ticks>>
  /\ SharedUnch /\ WriterUnch /\ LiveRest

\* Runner.run lines 185-188: time.sleep(1) ends and _check_display_update
\* runs
LiveHeartbeat ==
  \E t \in WakeTimes(clock) :
    LET wrap == t >= 2 * Hour
        now == IF wrap THEN t - Hour ELSE t
        ldu == IF wrap THEN Shift(last_display_update) ELSE last_display_update
        ldc == IF wrap THEN Shift(last_display_clear) ELSE last_display_clear
    IN  /\ clock' = now
        /\ ticks' = IF t = clock + HeartbeatSleep THEN ticks + 1 ELSE 0
        /\ last_weather_change' =
             IF wrap THEN Shift(last_weather_change) ELSE last_weather_change
        /\ wwake' = IF wrap THEN Shift(wwake) ELSE wwake
        /\ Redraw(1, now, weather_data, train_data, ldu, ldc, FALSE)
        /\ UNCHANGED <<weather_data, train_data, events, lvars>>
        /\ UNCHANGED <<wpc, wframe, hw, taken, wfirstfail>>
        /\ LiveRest

\* Display._process_queue line 182: EInkDisplay.update returns
LiveWrite ==
  /\ wpc = "q182"
  /\ l_shown' = Some(wframe.img)
  /\ wpc' = "q183"
  /\ UNCHANGED <<l_stopped, events, clock, ticks>>
  /\ UNCHANGED <<wframe, wwake, hw, taken, wfirstfail>>
  /\ SharedUnch /\ LiveRest

\* the writer thread, Display._process_queue
LiveWriter ==
  \/ WriterTake
  \/ WriterIdle
  \/ LiveWrite
  \/ WriterClear
  \/ WriterWake

LiveNext ==
  \/ LiveWeather
  \/ LiveTrain
  \/ LiveStop
  \/ LiveHeartbeat
  \/ LiveWriter

\* the main thread and the writer thread are scheduled again and again
SpecLive ==
  /\ LiveInit
  /\ [][LiveNext]_vars
  /\ WF_vars(LiveHeartbeat)
  /\ WF_vars(LiveWriter)

(***************************************************************************)
(* Properties.                                                             *)
(***************************************************************************)
BothSet == weather_data # None /\ train_data # None
UpdatePcs == {"u152", "u194", "u159", "u164"}
NoDup(q) == \A i \in 1..Len(q) : \A j \in 1..Len(q) : i # j => q[i] # q[j]

\* C1: Display.update is never called, and no thread is inside _update_display,
\* while weather_data or train_data has not been set.
C1_ColdStartGate ==
  /\ issued > 0 => BothSet
  /\ \A t \in Threads : pc[t] \in UpdatePcs => BothSet

\* the weather event, the only event so far, was evaluated and returned at the gate
C1_Witness ==
  gated /\ events = 1 /\ weather_data # None /\ train_data = None /\ issued = 0

\* C2 as claimed: a non-forced evaluation that found last_display_update = T,
\* set by a redraw, calls Display.update only if its now is at least
\* T + min_interval.
C2_Original ==
  \A t \in Threads :
    (pc[t] = "u152" /\ ~loc[t].force /\ loc[t].seen # 0)
      => loc[t].now >= loc[t].seen + min_interval

\* C2, amended: the same, except for the hourly-clear branch (clear=true), which
\* redraws without consulting min_interval.
C2_MinInterval ==
  \A t \in Threads :
    (pc[t] = "u152" /\ ~loc[t].force /\ loc[t].seen # 0 /\ ~loc[t].clear)
      => loc[t].now >= loc[t].seen + min_interval

\* after one redraw, an evaluation in the same second was absorbed
C2_Witness ==
  absorbed /\ nsub = 1 /\ last_display_update = clock

\* C3 as claimed: every frame stored in the slot has been written to the hardware,
\* has been overwritten by a later frame, or is still in the slot.
C3_NoFrameLost ==
  \A f \in 1..nsub :
    \/ f \in Range(hw)
    \/ f \in superseded
    \/ next_frame # None /\ next_frame.id = f

\* C4 as claimed: at most one thread is inside a handler at any time.
C4_CriticalSection ==
  Cardinality({t \in Threads : pc[t] # "idle"}) <= 1

\* C5: a frame overwritten in the slot before the writer read it is never read
\* nor written by the writer, the frame the writer reads is the latest stored or
\* has been overwritten since, and no frame is written twice.
C5_Coalescing ==
  /\ coalesced \cap (taken \cup Range(hw)) = {}
  /\ wpc = "q182" => (wframe.id = nsub \/ wframe.id \in superseded)
  /\ NoDup(hw)

\* F1 was overwritten by F2 before the writer read the slot, and the one write
\* so far is of F2
C5_Witness ==
  /\ Len(hw) = 1
  /\ hw[1] - 1 \in coalesced
  /\ nsub = hw[1]

\* position i of a snapshot holds the same train at the same minute in both,
\* or is absent in both
SameEntry(l1, l2, i) ==
  IF Len(l1) >= i /\ Len(l2) >= i
  THEN /\ l1[i].train_id = l2[i].train_id
       /\ l1[i].minutes_until_arrival = l2[i].minutes_until_arrival
  ELSE Len(l1) < i /\ Len(l2) < i

SameTopTwo(l1, l2) == SameEntry(l1, l2, 1) /\ SameEntry(l1, l2, 2)

\* C6 as claimed: _has_significant_change is false whenever the first two
\* entries of the two snapshots are identical by (train_id, minutes).
C6_Original ==
  (dpc = "returned" /\ SameTopTwo(dPrev, dCurr)) => dResult = FALSE

\* C6, amended: the same for a current snapshot that is not empty.
C6_ShallowCompare ==
  (dpc = "returned" /\ SameTopTwo(dPrev, dCurr) /\ Len(dCurr) > 0)
    => dResult = FALSE

\* the same top two, a third entry at a different minute and different routes:
\* no change
C6_Witness ==
  /\ dpc = "returned" /\ dResult = FALSE
  /\ Len(dPrev) = 3 /\ Len(dCurr) = 3
  /\ SameTopTwo(dPrev, dCurr)
  /\ dPrev[3].minutes_until_arrival # dCurr[3].minutes_until_arrival
  /\ dPrev[1].route_id # dCurr[1].route_id

\* C7: with an empty current snapshot _has_significant_change is true, whatever
\* the previous top two.
C7_EmptyCurrent ==
  (dpc = "returned" /\ Len(dCurr) = 0) => dResult = TRUE

C7_Witness ==
  dpc = "returned" /\ Len(dCurr) = 0 /\ Len(dPrev) = 0 /\ dResult = TRUE

\* C8: with previous top two (None, None) and a current snapshot that has an
\* entry, _has_significant_change is true.
C8_FirstTrainAppeared ==
  (dpc = "returned" /\ Len(dPrev) = 0 /\ Len(dCurr) > 0) => dResult = TRUE

C8_Witness ==
  dpc = "returned" /\ Len(dPrev) = 0 /\ Len(dCurr) = 1 /\ dResult = TRUE

\* position i is present in both snapshots and differs in train_id or minutes
EntryDiffers(l1, l2, i) ==
  /\ Len(l1) >= i /\ Len(l2) >= i
  /\ \/ l1[i].train_id # l2[i].train_id
     \/ l1[i].minutes_until_arrival # l2[i].minutes_until_arrival

\* position i is present in exactly one of the snapshots
EntryAppeared(l1, l2, i) == (Len(l1) >= i) # (Len(l2) >= i)

\* C9: when both snapshots have a first train, _has_significant_change is true
\* exactly when position 1 or 2 differs in train_id or minutes, or is present in
\* only one of them.
C9_Positional ==
  (dpc = "returned" /\ Len(dPrev) > 0 /\ Len(dCurr) > 0)
    => (dResult = \E i \in 1..2 : EntryDiffers(dPrev, dCurr, i)
                                  \/ EntryAppeared(dPrev, dCurr, i))

\* the second train disappeared while the first only changed its route and
\* arrival_time
C9_Witness ==
  /\ dpc = "returned" /\ dResult = TRUE
  /\ Len(dPrev) = 2 /\ Len(dCurr) = 1
  /\ SameEntry(dPrev, dCurr, 1)
  /\ dPrev[1].route_id # dCurr[1].route_id
  /\ dPrev[1].arrival_time # dCurr[1].arrival_time

\* C10: an evaluation that finds both snapshots set and last_display_update = 0
\* goes on to call Display.update with clear=false, so once an evaluation that
\* began with both snapshots set has returned, Display.update has been called.
C10_ColdStart ==
  /\ doneBoth => issued > 0
  /\ \A t \in Threads :
       (pc[t] # "idle" /\ loc[t].seen = 0) => (pc[t] \in UpdatePcs /\ ~loc[t].clear)

\* a non-forced evaluation made the first call of Display.update, with the
\* hourly clear due at minute 0
C10_Witness ==
  \E t \in Threads :
    /\ pc[t] = "u194" /\ loc[t].seen = 0 /\ ~loc[t].force /\ ~loc[t].clear
    /\ nsub = 0
    /\ ClearDue(loc[t].now, last_display_clear) /\ Minute(clock) = 0

\* C11: an evaluation with force set that passes the gate goes straight to
\* _update_display with clear=false; it never reaches the hourly-clear test or
\* the min-interval test.
C11_ForcedRedraw ==
  \A t \in Threads :
    (loc[t].force /\ pc[t] \notin {"idle", "t81", "c118", "c121"})
      => (pc[t] \in UpdatePcs /\ ~loc[t].clear)

\* a forced evaluation has called Display.update in the second of the previous
\* redraw, with the hourly clear due at minute 0
C11_Witness ==
  \E t \in Threads :
    /\ pc[t] = "u194" /\ loc[t].force /\ ~loc[t].clear
    /\ loc[t].seen # 0
    /\ loc[t].now - loc[t].seen < min_interval
    /\ ClearDue(loc[t].now, last_display_clear) /\ Minute(clock) = 0

\* C12 as claimed: a redraw issued by an evaluation made with last_display_clear
\* 3500 s or more old at minute 0 has clear=true.
C12_Original ==
  \A t \in Threads :
    (pc[t] = "u152" /\ ClearDue(loc[t].now, last_display_clear)
       /\ Minute(clock) = 0)
      => loc[t].clear

\* C12, amended: an evaluation that reaches the hourly-clear test (not forced,
\* not the first update) with last_display_clear 3500 s or more old at minute 0
\* goes on to _update_display with clear=true, and a redraw with clear=true sets
\* last_display_clear to the time of lines 159-160.
C12_HourlyClear ==
  [][\A t \in Threads :
       /\ (pc[t] = "c135" /\ pc'[t] # "c135"
             /\ ClearDue(loc[t].now, last_display_clear) /\ Minute(clock) = 0)
            => (pc'[t] = "u152" /\ loc'[t].clear)
       /\ (pc[t] = "u159" /\ pc'[t] = "u164" /\ loc[t].clear)
            => last_display_clear' = clock]_vars

\* a non-forced redraw with clear=true has reset last_display_clear
C12_Witness ==
  \E t \in Threads :
    /\ pc[t] = "u164" /\ loc[t].clear /\ ~loc[t].force /\ loc[t].seen # 0
    /\ last_display_clear = clock

\* C13 as claimed: a non-forced evaluation that finds last_display_clear 3500 s
\* or more old, the minute not 0 and min_interval elapsed since
\* last_display_update goes on to the min-interval test or to _update_display.
C13_FallThrough ==
  [][\A t \in Threads :
       (pc[t] = "c135" /\ pc'[t] # "c135"
          /\ ClearDue(loc[t].now, last_display_clear) /\ Minute(clock) # 0
          /\ IntervalElapsed(loc[t].now, last_display_update))
         => pc'[t] \in {"c142", "u152"}]_vars

\* C14 as claimed: when _update_display finishes a redraw, _previous_top_trains
\* becomes the top two of the train list that the redraw rendered.
C14_BaselineIsRendered ==
  [][\A t \in Threads :
       (pc[t] = "u164" /\ pc'[t] = "idle")
         => previous_top_trains' = GetTopTwoTrains(loc[t].img.trains)]_vars

\* C15: a step of an evaluation before _update_display (the gate, the
\* hourly-clear test, the min-interval test, and their returns) leaves
\* last_display_update, last_display_clear and _previous_top_trains unchanged,
\* and the steps of handle_train_update before the evaluation leave
\* _previous_top_trains unchanged.
C15_NoOpFrame ==
  [][/\ \A t \in Threads :
          (pc[t] \in {"c118", "c121", "c135", "c142"} /\ pc'[t] # pc[t])
            => UNCHANGED <<last_display_update, last_display_clear,
                           previous_top_trains>>
     /\ (pc["subway"] \in {"idle", "t81"} /\ pc'["subway"] # pc["subway"])
          => UNCHANGED previous_top_trains]_vars

\* a transit event that changed only the third train was absorbed and the
\* baseline still holds the top two of the last redraw
C15_Witness ==
  /\ absorbed
  /\ \A t \in Threads : pc[t] = "idle"
  /\ train_data # None /\ Len(train_data.some) = 3
  /\ previous_top_trains = <<A5, B12>>
  /\ last_display_update = clock

\* C16: handle_weather_update stores the snapshot, then sets last_weather_change
\* and last_display_clear to now, then evaluates with force=false; the weather
\* thread never holds force, and it passes the min-interval test only with
\* now - last_display_update >= min_interval.
C16_WeatherHandler ==
  [][/\ (pc["weather"] = "idle" /\ pc'["weather"] # "idle")
          => (pc'["weather"] = "w65" /\ weather_data' \in WeatherSnaps)
     /\ (pc["weather"] = "w65" /\ pc'["weather"] # "w65")
          => /\ pc'["weather"] = "c118"
             /\ last_weather_change' = clock
             /\ last_display_clear' = clock
     /\ ~loc'["weather"].force
     /\ (pc["weather"] = "c142" /\ pc'["weather"] = "u152")
          => loc["weather"].now - last_display_update >= 1]_vars

\* the weather thread, its snapshot stored and both timestamps set, is about to
\* be absorbed by the rate limit
C16_Witness ==
  /\ pc["weather"] = "c142"
  /\ loc["weather"].now - last_display_update < 1
  /\ weather_data # None
  /\ last_weather_change = clock /\ last_display_clear = clock

\* C17 as claimed: a failed fetch leaves the producer's cache and the
\* scheduler's snapshot as they were and notifies nobody: for transit, with a
\* non-empty cache, the step after a failed get_upcoming_trains goes to sleep;
\* for weather, the step in which get_weather raises changes neither.
C17_FailureKeepsData ==
  [][/\ (s_pc = "s81" /\ s_pc' # "s81" /\ s_failed /\ Len(s_current_trains) > 0)
          => /\ s_current_trains' = s_current_trains
             /\ train_data' = train_data
             /\ s_pc' = "s84"
     /\ (w_pc = "w47" /\ w_fails' # w_fails)
          => /\ w_current_data' = w_current_data
             /\ weather_data' = weather_data
             /\ w_pc' # "w52"]_vars

\* C18: a polling loop exits only from its loop test with _should_run false; a
\* failed fetch is followed by the sleep of one interval, the sleep by the loop
\* test, and a transit notification by the sleep.
C18_KeepsPolling ==
  [][/\ (w_pc' = "exited" /\ w_pc # "exited") => (w_pc = "w47" /\ ~w_should_run)
     /\ (s_pc' = "exited" /\ s_pc # "exited") => (s_pc = "s78" /\ ~s_should_run)
     /\ (w_pc = "w47" /\ w_fails' # w_fails)
          => (w_pc' = "w56" /\ w_wake' = clock + WeatherInterval)
     /\ (w_pc = "w56" /\ w_pc' # "w56") => (w_pc' = "w47" /\ clock >= w_wake)
     /\ (s_pc = "s81" /\ s_pc' # "s81" /\ s_failed) => s_pc' \in {"s83", "s84"}
     /\ (s_pc = "s83" /\ s_pc' # "s83")
          => (s_pc' = "s84" /\ s_wake' = clock + SubwayInterval)
     /\ (s_pc = "s84" /\ s_pc' # "s84") => (s_pc' = "s78" /\ clock >= s_wake)]_vars

\* the weather loop has fetched again after a get_weather that raised, and the
\* subway loop sleeps after a get_upcoming_trains that failed
C18_Witness ==
  /\ w_pc = "w50" /\ w_fails >= 1 /\ w_should_run
  /\ s_pc = "s84" /\ s_failed /\ polls = 4

\* C19 as claimed: a successful poll whose snapshot equals the snapshot last
\* handed to the subscriber (which the scheduler holds in weather_data) sleeps
\* without calling the subscriber.
C19_NotifyOnChange ==
  [][(w_pc = "w50" /\ w_pc' # "w50" /\ w_weather_data = weather_data)
       => (w_pc' = "w53" /\ UNCHANGED pc)]_vars

\* C20 as claimed: when position 1 or 2 of a fetched snapshot differs from the
\* cache in train_id or minutes, or is present in only one of them, the
\* subscribers are notified.
C20_NotifyOnTopTwo ==
  [][(s_pc = "s81" /\ s_pc' # "s81" /\ ~s_failed
        /\ ~SameTopTwo(s_current_trains, s_new_trains))
       => s_pc' = "s83"]_vars

\* C21 as claimed: when the subscriber has already been given a snapshot and a
\* successful poll returns one whose positions 1 and 2 equal the cache's and
\* which is empty exactly if the cache is, the loop sleeps without calling the
\* subscriber and keeps the cache.
C21_QuietWhenUnchanged ==
  [][(s_pc = "s81" /\ s_pc' # "s81" /\ ~s_failed /\ train_data # None
        /\ SameTopTwo(s_current_trains, s_new_trains)
        /\ (Len(s_current_trains) = 0) = (Len(s_new_trains) = 0))
       => (s_pc' = "s84" /\ UNCHANGED <<s_current_trains, pc, train_data>>)]_vars

\* Runner.run is past subway_service.stop_updates (line 196)
SubwayStopped == r_pc \in {"r197", "w40", "done"}
\* Runner.run is past weather_service.stop_updates (line 197)
WeatherStopped == r_pc = "done"

\* C23: stop_updates clears _should_run and returns only once its thread is
\* gone; a loop whose flag is clear leaves its loop test by exiting, not by
\* fetching; after stop_updates has returned that producer fetches nothing and
\* calls no subscriber.
C23_CooperativeJoin ==
  [][/\ SubwayStopped => (s_pc \in {"exited", "off"} /\ ~s_should_run)
     /\ WeatherStopped => (w_pc \in {"exited", "off"} /\ ~w_should_run)
     /\ (~s_should_run /\ s_pc = "s78" /\ s_pc' # "s78") => s_pc' = "exited"
     /\ (~w_should_run /\ w_pc = "w47" /\ w_pc' # "w47") => w_pc' = "exited"
     /\ SubwayStopped
          => /\ UNCHANGED <<s_pc, s_new_trains, s_current_trains, train_data>>
             /\ pc["subway"] = "idle" /\ pc'["subway"] = "idle"
     /\ WeatherStopped
          => /\ UNCHANGED <<w_pc, w_weather_data, w_current_data, weather_data>>
             /\ pc["weather"] = "idle" /\ pc'["weather"] = "idle"]_vars

\* Runner.run has returned after both loops polled and notified
C23_Witness ==
  /\ r_pc = "done" /\ s_pc = "exited" /\ w_pc = "exited"
  /\ train_data # None /\ weather_data # None

\* C24: from the heartbeat loop and from a failed start-up alike, the subway
\* flag is cleared first, the weather producer's stop_updates is entered only
\* after the subway's has returned with the subway thread gone, and from then
\* on no transit callback starts or runs.
C24_ShutdownOrder ==
  [][/\ (s_should_run /\ ~s_should_run') => (r_pc \in {"r186", "r196"} /\ w_should_run' = w_should_run)
     /\ (r_pc' = "r197" /\ r_pc # "r197") => (r_pc = "s57" /\ s_pc \in {"exited", "off"})
     /\ (r_pc' = "w40" /\ r_pc # "w40")
          => (r_pc = "r197" /\ s_pc \in {"exited", "off"} /\ ~s_should_run)
     /\ (w_should_run /\ ~w_should_run') => (r_pc = "r197" /\ r_pc' = "w40")
     /\ r_pc \in {"w40", "done"}
          => /\ pc["subway"] = "idle" /\ pc'["subway"] = "idle"
             /\ UNCHANGED <<train_data, s_pc>>]_vars

\* the weather producer's stop_updates waits for a weather thread that is
\* still polling, after the subway thread has notified and exited
C24_Witness ==
  /\ r_pc = "w40" /\ s_pc = "exited" /\ train_data # None
  /\ w_pc \in {"w50", "w52"}

\* C22 as claimed: a callback that subscribes while the loop sleeps after a
\* successful fetch is called by subscribe exactly once, with the cached value,
\* also when that fetch returned an empty list; one that subscribes before any
\* fetch is not called.
C22_LateJoin ==
  [][/\ (s_late = None /\ s_late' # None /\ s_pc = "s84" /\ ~s_failed)
          => s_late'.some = <<s_current_trains>>
     /\ (s_late = None /\ s_late' # None /\ s_pc \in {"s78", "off"} /\ s_wake = 0)
          => s_late'.some = <<>>
     /\ (w_late = None /\ w_late' # None /\ w_pc = "w53")
          => w_late'.some = <<w_current_data>>
     /\ (w_late = None /\ w_late' # None /\ w_pc \in {"w47", "off"} /\ w_wake = 0)
          => w_late'.some = <<>>]_vars

\* the pixels in which the bitmap of the last call differs from the cache it
\* found, and the extent of their bounding box
ChangedPixels ==
  IF e_arg.some.prev = None THEN {}
  ELSE Difference(e_arg.some.prev.some, e_arg.some.img)
ChangedWidth == MaxOf({p.x : p \in ChangedPixels}) - MinOf({p.x : p \in ChangedPixels}) + 1
ChangedHeight == MaxOf({p.y : p \in ChangedPixels}) - MinOf({p.y : p \in ChangedPixels}) + 1

\* C25: a completed EInkDisplay.update wrote partially, to exactly the
\* bounding box of the changed pixels, if partial was set, there was a previous
\* bitmap, something changed and the box is at most 50 px wide and 50 px high;
\* in every other case it wrote the full frame.
C25_WriteMode ==
  (e_pc = "idle" /\ e_op # None /\ e_op.mode # "failed")
    => IF /\ e_arg.some.partial
          /\ e_arg.some.prev # None
          /\ ChangedPixels # {}
          /\ ChangedWidth <= 50 /\ ChangedHeight <= 50
       THEN /\ e_op.mode = "partial"
            /\ e_op.box = GetBBox(ChangedPixels)
            /\ e_op.img = e_arg.some.img
       ELSE e_op.mode = "full" /\ e_op.img = e_arg.some.img

\* a partial write of a box exactly 50 px wide
C25_Witness ==
  /\ e_pc = "idle" /\ e_op # None /\ e_op.mode = "partial"
  /\ e_op.box.right - e_op.box.left = 50

\* C28: previous_image is the bitmap of the last write that completed without
\* error, None before the first; the diff box of a call is taken against it.
C28_PreviousIsLastGood ==
  /\ previous_image = e_good
  /\ e_pc = "e145" => e_arg.some.diff_box = DiffBoxFor(e_good, e_arg.some.img)

\* a call after a failed write that followed a successful one, with a bitmap
\* other than the failed one and the cached one
C28_Witness ==
  /\ e_pc = "e145" /\ e_op # None /\ e_op.mode = "failed"
  /\ previous_image # None
  /\ e_arg.some.img # previous_image.some
  /\ e_arg.some.diff_box # None

\* the frames stored in the slot after a hardware write had raised
AfterFailure ==
  IF wfirstfail = None THEN {} ELSE {f \in 1..nsub : f > wfirstfail.some}

\* C26 as claimed: the writer hands a frame to the hardware only if it has not
\* handed that frame over before, so after a write that raised nothing is
\* written until a new frame is stored.
C26_NoAutoRetry ==
  [][(wpc = "q180" /\ wpc' = "q182") => next_frame.id \notin taken]_vars

\* C27 as claimed: every write attempt, whether it returns or raises, is
\* followed by the one-second sleep before the loop looks at the slot again.
C27_SleepAfterAttempt ==
  [][/\ (wpc = "q182" /\ wpc' # "q182") => wpc' \in {"q183", "q184"}
     /\ (wpc = "q183" /\ wpc' # "q183")
          => (wpc' = "q184" /\ wwake' = clock + WriterSleep)
     /\ (wpc = "q184" /\ wpc' # "q184") => clock >= wwake]_vars

\* C30 as claimed: a frame stored after a hardware write raised has been
\* written, has been overwritten by a later frame, or is still in the slot
\* for the writer to take.
C30_WrittenAfterFailure ==
  \A f \in AfterFailure :
    \/ f \in Range(hw)
    \/ f \in superseded
    \/ next_frame # None /\ next_frame.id = f

\* C29: a call of Display.update that ends in a render error stores no frame,
\* leaves the slot as it was, and leaves last_display_update,
\* last_display_clear and _previous_top_trains as they were.
C29_RenderErrorSkips ==
  [][\A t \in Threads :
       (pc[t] = "u152" /\ pc'[t] = "idle")
         => UNCHANGED <<next_frame, nsub, hw, last_display_update,
                        last_display_clear, previous_top_trains>>]_vars

\* after a first update that failed in getImage, a later evaluation is at the
\* redraw again, nothing stored or booked so far
C29_Witness ==
  /\ \E t \in Threads : pc[t] = "u152"
  /\ issued >= 1 /\ nsub = 0
  /\ last_display_update = 0 /\ next_frame = None

\* C31: when the round is over every registered subscriber has been called
\* exactly once with the snapshot, whichever of them raised; and whenever a
\* subscriber is called the cache already holds the snapshot.
C31_ObserverIsolation ==
  /\ n_pc = "n84"
       => \A i \in 1..Len(n_subs) :
            /\ Cardinality({k \in 1..Len(n_calls) : n_calls[k].sub = i}) = 1
            /\ \A k \in 1..Len(n_calls) : n_calls[k].data = n_new
  /\ n_calls # <<>> => n_cache = n_new

\* a round of three subscribers, the first of which raised
C31_Witness ==
  /\ n_pc = "n84" /\ Len(n_subs) = 3 /\ n_subs[1] = "raises"
  /\ Len(n_calls) = 3

\* C32: with the weather set, the poll that first returns (A, 5), (B, 12) calls
\* the handler, which forces a redraw that goes straight to Display.update; a
\* later poll that returns the same two with a third entry behind them calls
\* no handler and issues nothing; a later poll where A is at 4 calls the
\* handler, which again forces a redraw that goes straight to Display.update.
C32_Scenario ==
  [][/\ (s_pc = "s81" /\ s_pc' # "s81" /\ s_current_trains = <<>>
           /\ s_new_trains = <<A5, B12>>)
          => (pc'["subway"] = "t81" /\ train_data' = Some(<<A5, B12>>))
     /\ (pc["subway"] = "t81" /\ pc'["subway"] # "t81"
           /\ loc["subway"].trains = <<A5, B12>>
           /\ previous_top_trains = <<None, None>>)
          => loc'["subway"].force
     /\ (s_pc = "s81" /\ s_pc' # "s81" /\ s_current_trains = <<A5, B12>>
           /\ s_new_trains = <<A5, B12, C12>>)
          => (s_pc' = "s84"
              /\ UNCHANGED <<pc, train_data, issued, nsub, next_frame,
                             s_current_trains>>)
     /\ (s_pc = "s81" /\ s_pc' # "s81" /\ s_current_trains = <<A5, B12>>
           /\ s_new_trains = <<A4, B12>>)
          => (pc'["subway"] = "t81" /\ train_data' = Some(<<A4, B12>>))
     /\ (pc["subway"] = "t81" /\ pc'["subway"] # "t81"
           /\ loc["subway"].trains = <<A4, B12>>
           /\ previous_top_trains = <<A5, B12>>)
          => loc'["subway"].force
     /\ (pc["subway"] = "c121" /\ pc'["subway"] # "c121"
           /\ loc["subway"].force /\ weather_data # None)
          => (pc'["subway"] = "u152" /\ ~loc'["subway"].clear)]_vars

\* the third transit poll of the run (after one weather poll) has A at 4 and
\* its forced redraw is at Display.update, the second redraw issued in the run
C32_Witness ==
  /\ pc["subway"] = "u152" /\ loc["subway"].force
  /\ loc["subway"].trains = <<A4, B12>>
  /\ previous_top_trains = <<A5, B12>>
  /\ weather_data # None
  /\ polls = 4 /\ issued = 1

\* C33: a == b for a TrainArrival a is true exactly when b is a TrainArrival
\* with the same train_id and minutes_until_arrival, whatever the other two
\* fields; a == a holds; b == a gives the same answer as a == b; and the answer
\* is false when b is None or not a TrainArrival.
C33_Equality ==
  q_pc = "returned"
    => /\ q_b \in TrainArrival
            => q_res.ab = (q_a.train_id = q_b.train_id
                           /\ q_a.minutes_until_arrival = q_b.minutes_until_arrival)
       /\ q_b \notin TrainArrival => ~q_res.ab
       /\ q_res.aa
       /\ q_res.ba = q_res.ab

\* two arrivals with different route_id and arrival_time compared equal
C33_Witness ==
  /\ q_pc = "returned" /\ q_res.ab
  /\ q_a.route_id # q_b.route_id /\ q_a.arrival_time # q_b.arrival_time

\* C35: a completed EInkDisplay.update that was called with partial and clear
\* both set wrote the full frame after a hardware clear.
C35_ClearIsFull ==
  (/\ e_pc = "idle" /\ e_op # None /\ e_op.mode # "failed"
   /\ e_arg.some.partial /\ e_arg.some.clear)
    => (e_op.mode = "full" /\ e_op.clear)

\* C34: with both snapshots set, the weather producer polling successfully every
\* 300 s and the heartbeat every second, every wall-clock hour has a redraw
\* with clear=true: at the end of an hour that began 3500 s or more after both
\* snapshots were set, the last such redraw is at most an hour old.
C34_ClearEveryHour ==
  (/\ k_since # None
   /\ clock % 3600 = 0
   /\ clock - 3600 >= k_since.some + ClearAge)
    => k_last_clear >= clock - 3600

\* C37: two successful redraws with clear=true are 3500 s or more apart, however
\* the heartbeat and the two callbacks interleave: when a thread completes a
\* redraw with clear=true in the second in which its evaluation began, no other
\* thread has completed one whose evaluation began in that same second.
C37_ClearsSpaced ==
  [][\A t \in Threads :
       (pc[t] = "u159" /\ pc'[t] = "u164" /\ loc[t].clear /\ loc[t].now = clock)
         => \A u \in Threads \ {t} :
              ~(pc[u] = "u164" /\ loc[u].clear /\ loc[u].now = clock)]_vars

\* C38: handle_train_update stores the snapshot it receives in train_data before
\* it classifies the change, nothing else assigns train_data, and every redraw
\* renders the train_data of that moment: a redraw issued after a transit event,
\* by whichever evaluation, shows the snapshot notified last.
C38_RendersLatest ==
  [][/\ (pc["subway"] = "idle" /\ pc'["subway"] = "t81")
          => train_data' = Some(loc'["subway"].trains)
     /\ train_data' # train_data
          => (pc["subway"] = "idle" /\ pc'["subway"] = "t81")
     /\ \A t \in Threads :
          (pc[t] = "u152" /\ pc'[t] = "u194")
            => loc'[t].img.trains = train_data.some]_vars

\* the heartbeat renders a snapshot with a new third train: the transit event
\* that delivered it was absorbed, the only earlier redraw was the first one
C38_Witness ==
  /\ pc["main"] = "u194"
  /\ issued = 2
  /\ loc["main"].img.trains = <<A5, B12, C12>>
  /\ next_frame # None /\ next_frame.img.trains = <<A5, B12>>
  /\ previous_top_trains = GetTopTwoTrains(<<A5, B12>>)

\* C39: with start_updates and stop_updates called one after the other, a
\* producer never has two _update_loop threads running; a start_updates call
\* made while the producer's thread is alive creates no thread, and a
\* start_updates call made after a completed stop_updates (or before any
\* start) creates exactly one, which is then the only one running.
C39_OnePoller ==
  [][\A p \in Producers :
       /\ Cardinality(Running(u_loops'[p])) <= 1
       /\ (Len(u_log') = Len(u_log) + 1
           /\ u_log'[Len(u_log')] = [op |-> "start", p |-> p])
            => IF Running(u_loops[p]) # {}
               THEN u_loops'[p] = u_loops[p]
               ELSE /\ Len(u_loops'[p]) = Len(u_loops[p]) + 1
                    /\ Running(u_loops'[p]) = {Len(u_loops'[p])}]_vars

\* start, start, stop, start on the subway producer: the second thread is the
\* only one running
C39_Witness ==
  /\ u_log = << [op |-> "start", p |-> "subway"], [op |-> "start", p |-> "subway"],
                [op |-> "stop", p |-> "subway"], [op |-> "start", p |-> "subway"] >>
  /\ Len(u_loops["subway"]) = 2
  /\ Running(u_loops["subway"]) = {2}

\* C40: the writer thread is at the hardware write of Display._process_queue
\* only when Display.initialize has set the backend, and no frame is in the
\* slot, no handler subscribed and no producer started before that.
C40_NoWriteBeforeInitialize ==
  (\/ wpc = "q182"
   \/ next_frame # None
   \/ b_subs # {}
   \/ b_started # {})
    => b_backend # None

\* the writer is about to write the first frame
C40_Witness ==
  /\ wpc = "q182"
  /\ wframe.id = 1
  /\ b_backend # None
  /\ AtStep("loop")

\* the hardware shows the frame rendered from the two snapshots now stored
Shown ==
  /\ weather_data # None
  /\ train_data # None
  /\ l_shown = Some([weather |-> weather_data, trains |-> train_data.some])

\* C36 as claimed: once the producers deliver no more events, with the
\* heartbeat and the writer scheduled fairly, a frame rendered from the
\* current weather_data and train_data is eventually written to the hardware.
C36_Original == l_stopped ~> Shown

\* C36, amended: the same, provided both snapshots have been set when the
\* producers go quiet.
C36_EventuallyShown ==
  (l_stopped /\ weather_data # None /\ train_data # None) ~> Shown

\* after the producers went quiet the writer has written the current frame,
\* submitted by the hourly clear
C36_Witness ==
  /\ l_stopped
  /\ Shown
  /\ wpc = "q183"
  /\ wframe.clear

====
